---------------------------- MODULE Spec2Model ----------------------------
(***************************************************************************)
(* A model of the read-only SQLite query engine: the varint and serial     *)
(* type codecs (utils.rs, typecodes.rs), the page loader, record reader    *)
(* and B-tree walkers (page_io.rs), and the command executor (main.rs).    *)
(*                                                                         *)
(* Bytes are integers 0..255 and byte slices are sequences.  A 64-bit      *)
(* word is a function from bit positions 0..63 (0 the least significant)   *)
(* to {0,1}, because the model checker's integers are narrower than 64     *)
(* bits.                                                                   *)
(***************************************************************************)
EXTENDS Integers, Sequences, FiniteSets, TLC

VARIABLES
    vpc, vin, venc, vout,         \* varint codec: phase, value, encoding, decode result
    spc, sheader, sbody,          \* serial types: phase, header bytes, body bytes
    stypes, svalues,              \*   decoded descriptors, decoded columns
    file,                         \* the database file: its pages, page 1 first
    wpc, index_root,              \* walkers: phase, root page of the index
    scan, mscan,                  \*   what full_table_scan yielded (page_io.rs, main.rs)
    wrow, lookup,                 \*   a scanned record, what row_lookup yielded for it
    wkey, idx,                    \*   a probe key, what index_scan yielded for it
    pc, schema, query,            \* executor: phase, the schema read, the parsed command
    resolved,                     \*   the column indices the query resolved to
    records, cursor,              \*   the scanned records, how many are processed
    out,                          \*   the lines printed, each with its record's position
    calls,                        \*   the B-tree walkers called, in order
    rpc, rnum, rcell,             \* record readers: phase, the leaf page and cell read
    rrec, rmain,                  \*   what read_record yielded (page_io.rs, main.rs)
    dbfile,                       \* a database file as its bytes, the header first
    tpc, tpage,                   \* page loader: phase, a page number and its Page
    tlines,                       \*   the lines `.tables` printed
    opc, reads,                   \* a SELECT command: phase, the pages read so far
    built                         \*   the schema it built

varintVars == <<vpc, vin, venc, vout>>
serialVars == <<spc, sheader, sbody, stypes, svalues>>
walkVars   == <<wpc, index_root, scan, mscan, wrow, lookup, wkey, idx>>
execVars   == <<pc, schema, query, resolved, records, cursor, out, calls>>
recordVars == <<rpc, rnum, rcell, rrec, rmain>>
pageVars   == <<dbfile, tpc, tpage, tlines>>
orderVars  == <<opc, reads, built>>

vars == <<varintVars, serialVars, file, walkVars, execVars, recordVars, pageVars,
          orderVars>>

otherThanVarint == <<serialVars, file, walkVars, execVars, recordVars, pageVars, orderVars>>
otherThanSerial == <<varintVars, file, walkVars, execVars, recordVars, pageVars, orderVars>>
otherThanWalk   == <<varintVars, serialVars, execVars, recordVars, pageVars, orderVars>>
otherThanExec   == <<varintVars, serialVars, walkVars, recordVars, pageVars, orderVars>>
otherThanRecord == <<varintVars, serialVars, walkVars, execVars, pageVars, orderVars>>
otherThanPage   == <<varintVars, serialVars, file, walkVars, execVars, recordVars, orderVars>>

-----------------------------------------------------------------------------
(* 64-bit words                                                            *)

BitIx == 0..63

Zero64 == [i \in BitIx |-> 0]

Pow2Table == <<1, 2, 4, 8, 16, 32, 64, 128, 256, 512, 1024, 2048, 4096, 8192,
               16384, 32768, 65536, 131072, 262144, 524288, 1048576, 2097152,
               4194304, 8388608, 16777216, 33554432, 67108864, 134217728,
               268435456, 536870912, 1073741824>>

\* 2^n for n in 0..30
Pow2(n) == Pow2Table[n + 1]

\* bit j of byte b
ByteBit(b, j) == (b \div Pow2(j)) % 2

\* the value of bits lo .. lo+width-1 of word w, as a number
RECURSIVE Field(_, _, _)
Field(w, lo, width) ==
    IF width = 0 THEN 0
    ELSE w[lo] + 2 * Field(w, lo + 1, width - 1)

\* the word whose set bits are exactly the positions of S
WordOf(S) == [i \in BitIx |-> IF i \in S THEN 1 ELSE 0]

\* the word of a number below 2^30
FromNat(n) == [i \in BitIx |-> IF i < 30 THEN ByteBit(n, i) ELSE 0]

\* A number standing for every word of 2^30 or more: larger than any length
\* or offset of a file the model builds.
Huge == Pow2(30)

\* `as usize` of a word, for words the model uses as lengths and offsets
AsUsize(w) == IF \E i \in 30..63 : w[i] = 1 THEN Huge ELSE Field(w, 0, 30)

\* In applied to the value of e: a `let` binding
Bind(e, In(_)) == In(e)

-----------------------------------------------------------------------------
(* utils.rs                                                                *)

\* result << k | low, with low the k low bits of byte b, in 64-bit arithmetic
ShiftIn(result, k, b) ==
    [i \in BitIx |-> IF i >= k THEN result[i - k] ELSE ByteBit(b, i)]

\* A decoder whose ninth byte contributes 7 bits like the others.
RECURSIVE decode_varint_loop7(_, _, _)
decode_varint_loop7(data, i, result) ==
    IF i >= Len(data) THEN <<result, i>>
    ELSE LET byte == data[i + 1]
             r7   == ShiftIn(result, 7, byte % 128)
         IN  IF byte < 128 \/ i = 8 THEN <<r7, i + 1>>
             ELSE decode_varint_loop7(data, i + 1, r7)

decode_varint_7bit(data) == decode_varint_loop7(data, 0, Zero64)

\* the for loop of decode_varint from iteration i on: <<result, bytes_read>>
RECURSIVE decode_varint_loop(_, _, _)
decode_varint_loop(data, i, result) ==
    IF i >= Len(data) THEN <<result, i>>
    ELSE LET byte == data[i + 1]
         IN  IF i = 8 THEN <<ShiftIn(result, 8, byte), i + 1>>
             ELSE LET r7 == ShiftIn(result, 7, byte % 128)
                  IN  IF byte < 128 THEN <<r7, i + 1>>
                      ELSE decode_varint_loop(data, i + 1, r7)

\* decode_varint(data) -> (result as u64, bytes_read)
decode_varint(data) == decode_varint_loop(data, 0, Zero64)

-----------------------------------------------------------------------------
(* typecodes.rs                                                            *)

\* enum TypeCode; len is the payload of Blob(len) and Text(len), else 0
TypeCode(kind, len) == [kind |-> kind, len |-> len]

\* TypeCode::size
size(t) ==
    CASE t.kind = "Null" -> 0
      [] t.kind = "I8"   -> 1
      [] t.kind = "I16"  -> 2
      [] t.kind = "I24"  -> 3
      [] t.kind = "I32"  -> 4
      [] t.kind = "I48"  -> 6
      [] t.kind = "I64"  -> 8
      [] t.kind = "F64"  -> 8
      [] t.kind = "Zero" -> 4
      [] t.kind = "One"  -> 4
      [] t.kind = "Blob" -> t.len
      [] t.kind = "Text" -> t.len

\* enum SqlValue.  An integer variant holds its value as the 8 big-endian
\* bytes of the value widened to i64 (what `val as u64` yields); F64 holds
\* its 8 bytes; Blob and Text hold their bytes; the others hold nothing.
SqlValue(tag, val) == [tag |-> tag, val |-> val]

SqlNull == SqlValue("Null", <<>>)

\* the 8 bytes of a big-endian two's complement integer read from `bytes`
\* and widened with sign extension
SignExtend(bytes) ==
    LET n == Len(bytes)
        s == IF bytes[1] >= 128 THEN 255 ELSE 0
    IN  [k \in 1..8 |-> IF k <= 8 - n THEN s ELSE bytes[k - (8 - n)]]

\* TypeCode::decode(data), for a slice of at least size(t) bytes
decode(t, data) ==
    CASE t.kind = "Null" -> SqlNull
      [] t.kind = "I8"   -> SqlValue("I8", SignExtend(SubSeq(data, 1, 1)))
      [] t.kind = "I16"  -> SqlValue("I16", SignExtend(SubSeq(data, 1, 2)))
      [] t.kind = "I24"  ->      \* i32::from_be_bytes([0, d0, d1, d2])
            SqlValue("I24", SignExtend(<<0>> \o SubSeq(data, 1, 3)))
      [] t.kind = "I32"  -> SqlValue("I32", SignExtend(SubSeq(data, 1, 4)))
      [] t.kind = "I48"  ->      \* i64::from_be_bytes([0, 0, 0, 0, d0, d1, d2, d3])
            SqlValue("I48", <<0, 0, 0, 0>> \o SubSeq(data, 1, 4))
      [] t.kind = "I64"  -> SqlValue("I64", SubSeq(data, 1, 8))
      [] t.kind = "F64"  -> SqlValue("F64", SubSeq(data, 1, 8))
      [] t.kind = "Zero" -> SqlValue("Zero", <<>>)
      [] t.kind = "One"  -> SqlValue("One", <<>>)
      [] t.kind = "Blob" -> SqlValue("Blob", SubSeq(data, 1, t.len))
      [] t.kind = "Text" -> SqlValue("Text", SubSeq(data, 1, t.len))

\* the slice data[from..] of Rust, `from` counted from 0
SliceFrom(data, from) == SubSeq(data, from + 1, Len(data))

\* a result that is a panic or an Err, and one that is a value
Failed(v) == [ok |-> FALSE, val |-> v]
Ok(v) == [ok |-> TRUE, val |-> v]

\* A match whose two guarded arms test the parity the other way round.
SerialTypeOf_parity(code) ==
    LET n == AsUsize(code)
    IN  CASE n \in 0..4 \/ n \in 6..10 -> Ok(TypeCode("Null", 0))
          [] n >= 12 /\ code[0] = 1 -> Ok(TypeCode("Blob", (n - 12) \div 2))
          [] n >= 13 /\ code[0] = 0 -> Ok(TypeCode("Text", (n - 13) \div 2))
          [] OTHER -> Failed(TypeCode("Null", 0))

\* one arm of the match of decode_serial_types; ok = FALSE is the panic of
\* the `_` arm.  The code is a u64; its parity is that of bit 0.
SerialTypeOf(code) ==
    LET n == AsUsize(code)
    IN  CASE n = 0  -> Ok(TypeCode("Null", 0))
          [] n = 1  -> Ok(TypeCode("I8", 0))
          [] n = 2  -> Ok(TypeCode("I16", 0))
          [] n = 3  -> Ok(TypeCode("I24", 0))
          [] n = 4  -> Ok(TypeCode("I32", 0))
          [] n = 6  -> Ok(TypeCode("I48", 0))
          [] n = 7  -> Ok(TypeCode("I64", 0))
          [] n = 8  -> Ok(TypeCode("F64", 0))
          [] n = 9  -> Ok(TypeCode("Zero", 0))
          [] n = 10 -> Ok(TypeCode("One", 0))
          [] n >= 12 /\ code[0] = 0 -> Ok(TypeCode("Blob", (n - 12) \div 2))
          [] n >= 13 /\ code[0] = 1 -> Ok(TypeCode("Text", (n - 13) \div 2))
          [] OTHER -> Failed(TypeCode("Null", 0))

\* the while loop of decode_serial_types from offset i on
RECURSIVE decode_serial_types_loop(_, _, _)
decode_serial_types_loop(data, i, serial_types) ==
    IF i >= Len(data) THEN Ok(serial_types)
    ELSE Bind(decode_varint(SliceFrom(data, i)), LAMBDA dv :
         Bind(SerialTypeOf(dv[1]), LAMBDA t :
             IF ~t.ok THEN Failed(<<>>)
             ELSE decode_serial_types_loop(data, i + dv[2],
                                           Append(serial_types, t.val))))

\* decode_serial_types(data) -> Vec<TypeCode>, or the panic
decode_serial_types(data) == decode_serial_types_loop(data, 0, <<>>)

\* String::from_utf8(bytes).is_ok(): the well-formed UTF-8 byte sequences
RECURSIVE Utf8Ok(_)
Utf8Ok(b) ==
    LET n == Len(b)
        Cont(k) == k <= n /\ b[k] \in 128..191
        Rest(k) == Utf8Ok(SubSeq(b, k, n))
    IN  IF n = 0 THEN TRUE
        ELSE CASE b[1] < 128 -> Rest(2)
               [] b[1] \in 194..223 -> Cont(2) /\ Rest(3)
               [] b[1] = 224 -> 2 <= n /\ b[2] \in 160..191 /\ Cont(3) /\ Rest(4)
               [] b[1] \in (225..236) \cup (238..239) ->
                      Cont(2) /\ Cont(3) /\ Rest(4)
               [] b[1] = 237 -> 2 <= n /\ b[2] \in 128..159 /\ Cont(3) /\ Rest(4)
               [] b[1] = 240 ->
                      2 <= n /\ b[2] \in 144..191 /\ Cont(3) /\ Cont(4) /\ Rest(5)
               [] b[1] \in 241..243 -> Cont(2) /\ Cont(3) /\ Cont(4) /\ Rest(5)
               [] b[1] = 244 ->
                      2 <= n /\ b[2] \in 128..143 /\ Cont(3) /\ Cont(4) /\ Rest(5)
               [] OTHER -> FALSE

\* whether TypeCode::decode returns: only the unwrap of from_utf8 can panic
decode_ok(t, data) == t.kind = "Text" => Utf8Ok(SubSeq(data, 1, t.len))

\* The column loop of read_record: for each descriptor take
\* payload[offset..offset + size], advance offset by size and decode.  The
\* slice panics when it ends past the payload.
RECURSIVE read_values(_, _, _, _)
read_values(payload, offset, serial_types, values) ==
    IF serial_types = <<>> THEN [ok |-> TRUE, val |-> values, offset |-> offset]
    ELSE LET t    == Head(serial_types)
             sz   == size(t)
             data == SubSeq(payload, offset + 1, offset + sz)
         IN  IF offset + sz > Len(payload) \/ ~decode_ok(t, data)
             THEN [ok |-> FALSE, val |-> values, offset |-> offset]
             ELSE read_values(payload, offset + sz, Tail(serial_types),
                              Append(values, decode(t, data)))

-----------------------------------------------------------------------------
(* page_io.rs: the page loader                                             *)

\* DbHeader.page_size: the size in bytes of every page of the file
PageSize == 48

\* u16::from_be_bytes and u32::from_be_bytes; a u32 of 2^30 or more is Huge
U16(b) == b[1] * 256 + b[2]
U32(b) == IF b[1] >= 64 THEN Huge
          ELSE ((b[1] * 256 + b[2]) * 256 + b[3]) * 256 + b[4]

\* the slice data[from..to] of Rust (from and to counted from 0), which
\* panics unless from <= to <= data.len()
SliceOk(data, from, to) == from <= to /\ to <= Len(data)
Slice(data, from, to) == SubSeq(data, from + 1, to)

Zeros(n) == [k \in 1..n |-> 0]

\* Option<u32>
None == [some |-> FALSE, val |-> 0]
Some(v) == [some |-> TRUE, val |-> v]

\* PageHeader::from_data(data) -> (PageHeader, header length), data of 12 bytes
PageHeader_from_data(data) ==
    LET page_type == data[1]
        reserved_region == IF page_type \in {2, 5}
                           THEN Some(U32(Slice(data, 8, 12)))
                           ELSE None
    IN  << [page_type          |-> page_type,
            first_freeblock    |-> U16(Slice(data, 1, 3)),
            num_cells          |-> U16(Slice(data, 3, 5)),
            cell_content_start |-> U16(Slice(data, 5, 7)),
            num_fragments      |-> data[8],
            rightmost_pointer  |-> reserved_region],
           8 + (IF reserved_region.some THEN 4 ELSE 0) >>

\* PageHeader::is_interior
is_interior(header) == header.page_type = 2 \/ header.page_type = 5

NoPage == [offset |-> 0, header |-> PageHeader_from_data(Zeros(12))[1],
           pointer_array |-> <<>>, data |-> <<>>]

\* Page::from_file(file, page_offset, dbheader).  The file is a sequence of
\* pages, page p at byte offset (p - 1) * page_size; reading page 0 or a
\* page past the end of the file fails (the subtraction or the seek for
\* page 0, read_exact past the end), and so does a header or a cell pointer
\* that lies outside the page.
Page_from_file(f, page_offset) ==
    IF page_offset \notin 1..Len(f) THEN Failed(NoPage)
    ELSE LET data == f[page_offset]
             dbheader_offset == IF page_offset = 1 THEN 100 ELSE 0
         IN  IF ~SliceOk(data, dbheader_offset, dbheader_offset + 12)
             THEN Failed(NoPage)
             ELSE Bind(PageHeader_from_data(
                           Slice(data, dbheader_offset, dbheader_offset + 12)),
                       LAMBDA hd :
                  LET header == hd[1]
                      headerlen == hd[2]
                      last == dbheader_offset + headerlen + 2 * header.num_cells
                  IN  IF header.num_cells > 0 /\ last > Len(data)
                      THEN Failed(NoPage)
                      ELSE Ok([offset |-> page_offset,
                               header |-> header,
                               pointer_array |->
                                   [i \in 1..header.num_cells |->
                                       U16(Slice(data,
                                           dbheader_offset + headerlen + 2 * (i - 1),
                                           dbheader_offset + headerlen + 2 * i))],
                               data |-> data]))

\* DbHeader::from_file: the page size is the u16 of bytes 16 and 17 of the
\* 100-byte header; read_exact fails on a shorter file
DbHeader_from_file(b) ==
    IF Len(b) < 100 THEN Failed([page_size |-> 0])
    ELSE Ok([page_size |-> U16(Slice(b, 16, 18))])

\* Pages that start one page further into the file.
FilePages_next(b, page_size) ==
    [p \in 1..((Len(b) \div page_size) - 1) |->
        SubSeq(b, p * page_size + 1, (p + 1) * page_size)]

\* The seek and read_exact of Page::from_file, for every page number: page
\* p is the page_size bytes from offset (p - 1) * page_size, and the pages
\* are those the file holds whole.
FilePages(b, page_size) ==
    [p \in 1..(Len(b) \div page_size) |->
        SubSeq(b, (p - 1) * page_size + 1, p * page_size)]

\* the bytes of the file from page p to its end (nothing past the end)
RECURSIVE FileFrom(_, _)
FileFrom(f, p) == IF p > Len(f) THEN <<>> ELSE f[p] \o FileFrom(f, p + 1)

\* dbheader.page_size of the file f: the size of each of its pages
page_size_of(f) == Len(f[1])

\* OverflowPage::from_file: a buffer of page_size zero bytes to which
\* read_to_end appends the rest of the file from the page's offset; the
\* seek fails for page 0
OverflowPage_from_file(f, page_offset) ==
    IF page_offset = 0 THEN Failed(<<>>)
    ELSE Ok(Zeros(page_size_of(f)) \o FileFrom(f, page_offset))

\* read_overflow(file, dbheader, page_number, num_overflow_bytes)
read_overflow(f, page_number, num_overflow_bytes) ==
    Bind(OverflowPage_from_file(f, page_number), LAMBDA page :
        IF ~page.ok \/ ~SliceOk(page.val, 4, 4 + num_overflow_bytes)
        THEN Failed(<<>>)
        ELSE Ok(Slice(page.val, 4, 4 + num_overflow_bytes)))

-----------------------------------------------------------------------------
(* page_io.rs and main.rs: the record reader                               *)

\* What a record reader yields: whether it returned, what it returned, and
\* the page it asked OverflowPage::from_file for (None when it asked for
\* none).
ReadOf(ok, val, overflow) == [ok |-> ok, val |-> val, overflow |-> overflow]

\* The part the two read_record functions share, from the overflow test to
\* the column loop.  payload_size is `payload_size as usize`.  header9 says
\* that the header length is decoded from payload[0..9] (main.rs) and not
\* from payload[0..] (page_io.rs).  The result is the column values.
\*
\* overflow = data.len() - payload_start - payload_size is unsigned: when
\* the payload runs past the page, a debug build panics at the subtraction
\* and a release build wraps to a count that no slice of the overflow
\* buffer can satisfy, so both fail.
read_record_payload(f, data, cell_offset, payload_size, payload_start, header9) ==
    IF payload_start + payload_size > Len(data) THEN ReadOf(FALSE, <<>>, None)
    ELSE
    LET overflow == Len(data) - payload_start - payload_size
    IN  IF ~SliceOk(data, cell_offset + payload_size - 4, cell_offset + payload_size)
           \/ cell_offset + payload_size < 4
        THEN ReadOf(FALSE, <<>>, None)
        ELSE
    LET overflow_page == U32(Slice(data, cell_offset + payload_size - 4,
                                         cell_offset + payload_size))
        asked == IF overflow > 0 THEN Some(overflow_page) ELSE None
    IN
    Bind(IF overflow > 0 THEN read_overflow(f, overflow_page, overflow)
                         ELSE Ok(<<>>),
         LAMBDA overflow_data :
        IF ~overflow_data.ok THEN ReadOf(FALSE, <<>>, asked)
        ELSE
    Bind(SliceFrom(data, payload_start) \o overflow_data.val, LAMBDA payload :
        IF header9 /\ Len(payload) < 9 THEN ReadOf(FALSE, <<>>, asked)
        ELSE
    Bind(decode_varint(IF header9 THEN Slice(payload, 0, 9) ELSE payload),
         LAMBDA hv :
    LET record_headerlen == AsUsize(hv[1])
        bytes_for_headerlen == hv[2]
    IN  IF ~SliceOk(payload, bytes_for_headerlen, record_headerlen)
        THEN ReadOf(FALSE, <<>>, asked)
        ELSE
    Bind(decode_serial_types(Slice(payload, bytes_for_headerlen, record_headerlen)),
         LAMBDA serial_types :
        IF ~serial_types.ok THEN ReadOf(FALSE, <<>>, asked)
        ELSE
    Bind(read_values(payload, record_headerlen, serial_types.val, <<>>),
         LAMBDA values :
        IF values.ok THEN ReadOf(TRUE, values.val, asked)
        ELSE ReadOf(FALSE, <<>>, asked))))))

\* enum RecordStart
RecordStart(kind, val) == [kind |-> kind, val |-> val]

\* struct Record of page_io.rs.  Row-ids and payload sizes are u64; the
\* model holds them as numbers (every one of 2^30 or more as Huge).
Record(record_start, payload_size, values) ==
    [record_start |-> record_start, payload_size |-> payload_size, values |-> values]

NoRecord == Record(RecordStart("None", 0), 0, <<>>)

\* Record::rowid and Record::left_page, an Option
rowid_of(record) ==
    IF record.record_start.kind = "RowId" THEN Some(record.record_start.val) ELSE None
left_page_of(record) ==
    IF record.record_start.kind = "LeftPage" THEN Some(record.record_start.val) ELSE None

\* read_record of page_io.rs.  record_start_kind: 0 for an index leaf cell,
\* 1 for a table leaf cell, 2 for an index interior cell.
read_record(f, page, cell_index, record_start_kind) ==
    LET data == page.data
    IN  IF cell_index >= Len(page.pointer_array) THEN ReadOf(FALSE, NoRecord, None)
        ELSE
    LET cell_offset == page.pointer_array[cell_index + 1]
    IN  IF record_start_kind \notin {0, 1, 2} \/ cell_offset > Len(data)
        THEN ReadOf(FALSE, NoRecord, None)
        ELSE IF record_start_kind = 2 /\ ~SliceOk(data, cell_offset, cell_offset + 4)
        THEN ReadOf(FALSE, NoRecord, None)
        ELSE
    \* an index interior cell starts with the 4 bytes of left_page
    LET left_page == IF record_start_kind = 2
                     THEN U32(Slice(data, cell_offset, cell_offset + 4)) ELSE 0
        size_at == cell_offset + (IF record_start_kind = 2 THEN 4 ELSE 0)
    IN
    Bind(decode_varint(SliceFrom(data, size_at)), LAMBDA pv :
    \* a table leaf cell holds the row-id after the payload size
    Bind(IF record_start_kind = 1
         THEN decode_varint(SliceFrom(data, size_at + pv[2]))
         ELSE <<Zero64, 0>>, LAMBDA rv :
    Bind(AsUsize(pv[1]), LAMBDA payload_size :
    Bind(read_record_payload(f, data, cell_offset, payload_size,
                             size_at + pv[2] + rv[2], FALSE), LAMBDA values :
        IF ~values.ok THEN ReadOf(FALSE, NoRecord, values.overflow)
        ELSE ReadOf(TRUE,
                    Record(CASE record_start_kind = 0 -> RecordStart("None", 0)
                             [] record_start_kind = 1 ->
                                    RecordStart("RowId", AsUsize(rv[1]))
                             [] record_start_kind = 2 ->
                                    RecordStart("LeftPage", left_page),
                           payload_size, values.val),
                    values.overflow)))))

\* struct Record of main.rs
MainRecord(rowid, payload_size, values) ==
    [rowid |-> rowid, payload_size |-> payload_size, values |-> values]

NoMainRecord == MainRecord(0, 0, <<>>)

\* read_record of main.rs: a table leaf cell
main_read_record(f, page, cell_index) ==
    LET data == page.data
    IN  IF cell_index >= Len(page.pointer_array)
        THEN ReadOf(FALSE, NoMainRecord, None)
        ELSE
    LET cell_offset == page.pointer_array[cell_index + 1]
    IN  IF cell_offset > Len(data) THEN ReadOf(FALSE, NoMainRecord, None)
        ELSE
    Bind(decode_varint(SliceFrom(data, cell_offset)), LAMBDA pv :
    Bind(decode_varint(SliceFrom(data, cell_offset + pv[2])), LAMBDA rv :
    Bind(AsUsize(pv[1]), LAMBDA payload_size :
    Bind(read_record_payload(f, data, cell_offset, payload_size,
                             cell_offset + pv[2] + rv[2], TRUE), LAMBDA values :
        IF values.ok
        THEN ReadOf(TRUE, MainRecord(AsUsize(rv[1]), payload_size, values.val),
                    values.overflow)
        ELSE ReadOf(FALSE, NoMainRecord, values.overflow)))))

-----------------------------------------------------------------------------
(* page_io.rs: the B-tree walkers                                          *)

\* The depth of recursion the call stack holds: a walker that recurses
\* deeper ends the process.
MaxDepth == 4

\* What a walker yields: whether it returned, the Vec it returned, and the
\* page numbers it passed to Page::from_file, in order.
Walked(ok, val, loads) == [ok |-> ok, val |-> val, loads |-> loads]

\* left_page of the cell at `cell_offset` of an interior page: the u32 of
\* bytes[0..4] with bytes = data[cell_offset..]
LeftPageOk(data, cell_offset) == SliceOk(data, cell_offset, cell_offset + 4)
LeftPage(data, cell_offset) == U32(Slice(data, cell_offset, cell_offset + 4))

\* A leaf loop that stops one cell early.
full_table_scan_leaf_short(f, page) ==
    LET n == IF page.header.num_cells = 0 THEN 0 ELSE page.header.num_cells - 1
    IN  Bind([i \in 1..n |-> read_record(f, page, i - 1, 1)], LAMBDA rs :
            IF \A i \in 1..n : rs[i].ok
            THEN Ok([i \in 1..n |-> rs[i].val])
            ELSE Failed(<<>>))

\* the leaf branch of full_table_scan: every cell's record, in cell order
full_table_scan_leaf(f, page) ==
    Bind([i \in 1..page.header.num_cells |-> read_record(f, page, i - 1, 1)],
         LAMBDA rs :
            IF \A i \in 1..page.header.num_cells : rs[i].ok
            THEN Ok([i \in 1..page.header.num_cells |-> rs[i].val])
            ELSE Failed(<<>>))

RECURSIVE full_table_scan(_, _, _)
RECURSIVE full_table_scan_interior(_, _, _, _, _)

\* the interior branch of full_table_scan from cell i on, `acc` holding
\* what the earlier cells yielded
full_table_scan_interior(f, page, i, acc, depth) ==
    IF i < Len(page.pointer_array)
    THEN LET cell_offset == page.pointer_array[i + 1]
         IN  IF ~LeftPageOk(page.data, cell_offset)
             THEN Walked(FALSE, <<>>, acc.loads)
             ELSE Bind(full_table_scan(f, LeftPage(page.data, cell_offset),
                                       depth + 1), LAMBDA r :
                  IF ~r.ok THEN Walked(FALSE, <<>>, acc.loads \o r.loads)
                  ELSE full_table_scan_interior(f, page, i + 1,
                           Walked(TRUE, acc.val \o r.val, acc.loads \o r.loads),
                           depth))
    ELSE Bind(full_table_scan(f, page.header.rightmost_pointer.val, depth + 1),
              LAMBDA r :
         Walked(r.ok, IF r.ok THEN acc.val \o r.val ELSE <<>>,
                acc.loads \o r.loads))

\* full_table_scan(file, dbheader, page_number) -> Vec<Record>
full_table_scan(f, page_number, depth) ==
    IF depth > MaxDepth THEN Walked(FALSE, <<>>, <<>>)
    ELSE Bind(Page_from_file(f, page_number), LAMBDA page :
         IF ~page.ok THEN Walked(FALSE, <<>>, <<page_number>>)
         ELSE IF is_interior(page.val.header)
         THEN full_table_scan_interior(f, page.val, 0,
                                       Walked(TRUE, <<>>, <<page_number>>), depth)
         ELSE Bind(full_table_scan_leaf(f, page.val), LAMBDA recs :
              Walked(recs.ok, recs.val, <<page_number>>)))

\* A leaf filter that keeps every record of the leaf.
row_lookup_leaf_all(f, page, rowid) == full_table_scan_leaf(f, page)

\* the leaf branch of row_lookup: the records whose row-id is `rowid`
row_lookup_leaf(f, page, rowid) ==
    Bind(full_table_scan_leaf(f, page), LAMBDA all :
        IF ~all.ok THEN Failed(<<>>)
        ELSE Ok(SelectSeq(all.val, LAMBDA record : rowid_of(record).val = rowid)))

\* the index of the first cell of an interior table page, from cell i on,
\* whose key satisfies rowid <= key (the cell at which the loop of
\* row_lookup breaks); the number of cells when there is none; -1 when a
\* cell before it lies outside the page
RECURSIVE row_lookup_break(_, _, _)
row_lookup_break(page, i, rowid) ==
    IF i >= Len(page.pointer_array) THEN i
    ELSE LET cell_offset == page.pointer_array[i + 1]
         IN  IF ~LeftPageOk(page.data, cell_offset) THEN -1
             ELSE LET cmpr_rowid ==
                          AsUsize(decode_varint(SliceFrom(page.data, cell_offset + 4))[1])
                  IN  IF rowid <= cmpr_rowid THEN i
                      ELSE row_lookup_break(page, i + 1, rowid)

\* row_lookup(file, dbheader, page_number, rowid) -> Vec<Record>
RECURSIVE row_lookup(_, _, _, _)
row_lookup(f, page_number, rowid, depth) ==
    IF depth > MaxDepth THEN Walked(FALSE, <<>>, <<>>)
    ELSE Bind(Page_from_file(f, page_number), LAMBDA page :
         IF ~page.ok THEN Walked(FALSE, <<>>, <<page_number>>)
         ELSE IF is_interior(page.val.header)
         THEN Bind(row_lookup_break(page.val, 0, rowid), LAMBDA i :
              IF i = -1 THEN Walked(FALSE, <<>>, <<page_number>>)
              ELSE
              Bind(IF i < Len(page.val.pointer_array)
                   THEN row_lookup(f, LeftPage(page.val.data,
                                               page.val.pointer_array[i + 1]),
                                   rowid, depth + 1)
                   ELSE Walked(TRUE, <<>>, <<>>), LAMBDA left :
              IF ~left.ok
              THEN Walked(FALSE, <<>>, <<page_number>> \o left.loads)
              ELSE
              \* the rightmost pointer is followed whether or not the loop broke
              Bind(row_lookup(f, page.val.header.rightmost_pointer.val,
                              rowid, depth + 1), LAMBDA right :
              Walked(right.ok,
                     IF right.ok THEN left.val \o right.val ELSE <<>>,
                     <<page_number>> \o left.loads \o right.loads))))
         ELSE Bind(row_lookup_leaf(f, page.val, rowid), LAMBDA recs :
              Walked(recs.ok, recs.val, <<page_number>>)))

\* String comparison a > b: lexicographic on the bytes
RECURSIVE StrGreater(_, _)
StrGreater(a, b) ==
    IF a = <<>> THEN FALSE
    ELSE IF b = <<>> THEN TRUE
    ELSE IF Head(a) # Head(b) THEN Head(a) > Head(b)
    ELSE StrGreater(Tail(a), Tail(b))

IntegerTags == {"I8", "I16", "I24", "I32", "I48", "I64"}

\* `val as u64` of an integer SqlValue, as a number (Huge from 2^30 on,
\* which covers the negative values)
AsU64(v) == IF \E k \in 1..4 : v.val[k] # 0 THEN Huge ELSE U32(SubSeq(v.val, 5, 8))

\* the leaf branch of index_scan from cell i on: the row-id (column 1) of
\* every cell whose key (column 0) is `key`.  A key that is not TEXT, a
\* row-id that is not an integer and a missing column panic.
RECURSIVE index_scan_leaf(_, _, _, _, _)
index_scan_leaf(f, page, i, row_ids, key) ==
    IF i >= page.header.num_cells THEN Ok(row_ids)
    ELSE Bind(read_record(f, page, i, 0), LAMBDA record :
         IF ~record.ok \/ Len(record.val.values) < 1 THEN Failed(<<>>)
         ELSE IF record.val.values[1].tag # "Text" THEN Failed(<<>>)
         ELSE IF record.val.values[1].val = key
         THEN IF Len(record.val.values) < 2 THEN Failed(<<>>)
              ELSE IF record.val.values[2].tag \notin IntegerTags THEN Failed(<<>>)
              ELSE index_scan_leaf(f, page, i + 1,
                       Append(row_ids, AsU64(record.val.values[2])), key)
         ELSE index_scan_leaf(f, page, i + 1, row_ids, key))

RECURSIVE index_scan(_, _, _, _)
RECURSIVE index_scan_interior(_, _, _, _, _, _)

\* the interior branch of index_scan from cell i on, `acc` holding what the
\* earlier cells yielded
index_scan_interior(f, page, i, acc, key, depth) ==
    IF i < Len(page.pointer_array)
    THEN Bind(read_record(f, page, i, 2), LAMBDA record :
         IF ~record.ok \/ Len(record.val.values) < 1
         THEN Walked(FALSE, <<>>, acc.loads)
         ELSE LET v == record.val.values[1]
              IN  IF v.tag = "Null"
                  THEN index_scan_interior(f, page, i + 1, acc, key, depth)
                  ELSE IF v.tag # "Text" THEN Walked(FALSE, <<>>, acc.loads)
                  ELSE IF v.val = key \/ StrGreater(v.val, key)
                  THEN Bind(index_scan(f, left_page_of(record.val).val, key,
                                       depth + 1), LAMBDA r :
                       IF ~r.ok THEN Walked(FALSE, <<>>, acc.loads \o r.loads)
                       ELSE IF v.val = key
                       THEN index_scan_interior(f, page, i + 1,
                                Walked(TRUE, acc.val \o r.val,
                                       acc.loads \o r.loads),
                                key, depth)
                       \* found_conclusive_subtree: break, no rightmost pointer
                       ELSE Walked(TRUE, acc.val \o r.val, acc.loads \o r.loads))
                  ELSE index_scan_interior(f, page, i + 1, acc, key, depth))
    ELSE Bind(index_scan(f, page.header.rightmost_pointer.val, key, depth + 1),
              LAMBDA r :
         Walked(r.ok, IF r.ok THEN acc.val \o r.val ELSE <<>>,
                acc.loads \o r.loads))

\* index_scan(file, dbheader, page_number, key) -> Vec<u64>
index_scan(f, page_number, key, depth) ==
    IF depth > MaxDepth THEN Walked(FALSE, <<>>, <<>>)
    ELSE Bind(Page_from_file(f, page_number), LAMBDA page :
         IF ~page.ok THEN Walked(FALSE, <<>>, <<page_number>>)
         ELSE IF is_interior(page.val.header)
         THEN index_scan_interior(f, page.val, 0,
                                  Walked(TRUE, <<>>, <<page_number>>), key, depth)
         ELSE Bind(index_scan_leaf(f, page.val, 0, <<>>, key), LAMBDA row_ids :
              Walked(row_ids.ok, row_ids.val, <<page_number>>)))

-----------------------------------------------------------------------------
(* main.rs: the B-tree walker                                              *)

\* the leaf branch of full_table_scan of main.rs
main_full_table_scan_leaf(f, page) ==
    Bind([i \in 1..page.header.num_cells |-> main_read_record(f, page, i - 1)],
         LAMBDA rs :
            IF \A i \in 1..page.header.num_cells : rs[i].ok
            THEN Ok([i \in 1..page.header.num_cells |-> rs[i].val])
            ELSE Failed(<<>>))

RECURSIVE main_full_table_scan(_, _, _)
RECURSIVE main_full_table_scan_interior(_, _, _, _, _)

\* the interior branch of full_table_scan of main.rs from cell i on
main_full_table_scan_interior(f, page, i, acc, depth) ==
    IF i < Len(page.pointer_array)
    THEN LET cell_offset == page.pointer_array[i + 1]
         IN  IF ~LeftPageOk(page.data, cell_offset)
             THEN Walked(FALSE, <<>>, acc.loads)
             ELSE Bind(main_full_table_scan(f, LeftPage(page.data, cell_offset),
                                            depth + 1), LAMBDA r :
                  IF ~r.ok THEN Walked(FALSE, <<>>, acc.loads \o r.loads)
                  ELSE main_full_table_scan_interior(f, page, i + 1,
                           Walked(TRUE, acc.val \o r.val, acc.loads \o r.loads),
                           depth))
    ELSE Bind(main_full_table_scan(f, page.header.rightmost_pointer.val, depth + 1),
              LAMBDA r :
         Walked(r.ok, IF r.ok THEN acc.val \o r.val ELSE <<>>,
                acc.loads \o r.loads))

\* full_table_scan(file, dbheader, page_number) -> Vec<Record> of main.rs
main_full_table_scan(f, page_number, depth) ==
    IF depth > MaxDepth THEN Walked(FALSE, <<>>, <<>>)
    ELSE Bind(Page_from_file(f, page_number), LAMBDA page :
         IF ~page.ok THEN Walked(FALSE, <<>>, <<page_number>>)
         ELSE IF is_interior(page.val.header)
         THEN main_full_table_scan_interior(f, page.val, 0,
                                            Walked(TRUE, <<>>, <<page_number>>),
                                            depth)
         ELSE Bind(main_full_table_scan_leaf(f, page.val), LAMBDA recs :
              Walked(recs.ok, recs.val, <<page_number>>)))

\* u64::to_string and u16::to_string: the decimal digits
RECURSIVE to_string(_)
to_string(n) ==
    IF n < 10 THEN <<48 + n>> ELSE to_string(n \div 10) \o <<48 + (n % 10)>>

\* [String]::join(sep)
RECURSIVE join(_, _)
join(strs, sep) ==
    IF strs = <<>> THEN <<>>
    ELSE IF Len(strs) = 1 THEN strs[1]
    ELSE strs[1] \o sep \o join(Tail(strs), sep)

-----------------------------------------------------------------------------
(* main.rs: the command executor                                           *)

\* struct Table, one per row of the schema page.  `sql` holds what
\* syntax::parse makes of the row's SQL text: a CreateTable statement with
\* its column names, or a CreateIndex statement with its column.
Table(tabletype, name, tbl_name, rootpage, sql) ==
    [tabletype |-> tabletype, name |-> name, tbl_name |-> tbl_name,
     rootpage |-> rootpage, sql |-> sql]

CreateTableStmt(columns) == [kind |-> "CreateTable", columns |-> columns]
CreateIndexStmt(column) == [kind |-> "CreateIndex", columns |-> <<column>>]

\* struct WhereClause and struct SelectStmt of syntax/select.rs; the COUNT
\* command, which is not parsed, keeps only its table name
WhereClause(column, value) == [column |-> column, value |-> value]
SelectStmt(columns, table, where_clause) ==
    [kind |-> "select", columns |-> columns, table |-> table,
     where_clause |-> where_clause]
CountCommand(table) ==
    [kind |-> "count", columns |-> <<>>, table |-> table, where_clause |-> <<>>]

\* The schema on the second page.
TABLESCHEMA_PAGE_two == 1 + 1

\* const TABLESCHEMA_PAGE
TABLESCHEMA_PAGE == 1

\* Table::from_row: the five values popped from the end of the record, sql
\* first; a missing value and a value of another variant panic.  Here sql
\* is the text as stored.
Table_from_row(row) ==
    LET n == Len(row.values)
    IN  IF n < 5 THEN Failed(Table(<<>>, <<>>, <<>>, 0, <<>>))
        ELSE IF \/ row.values[n].tag # "Text"
                \/ row.values[n - 1].tag \notin IntegerTags
                \/ row.values[n - 2].tag # "Text"
                \/ row.values[n - 3].tag # "Text"
                \/ row.values[n - 4].tag # "Text"
        THEN Failed(Table(<<>>, <<>>, <<>>, 0, <<>>))
        ELSE Ok(Table(row.values[n - 4].val, row.values[n - 3].val,
                      row.values[n - 2].val, AsU64(row.values[n - 1]),
                      row.values[n].val))

\* SqliteSchema::from_page of main.rs from cell i on: one Table per cell
RECURSIVE SqliteSchema_from_page(_, _, _, _)
SqliteSchema_from_page(f, page, i, tables) ==
    IF i >= page.header.num_cells THEN Ok(tables)
    ELSE Bind(main_read_record(f, page, i), LAMBDA record :
         IF ~record.ok THEN Failed(<<>>)
         ELSE Bind(Table_from_row(record.val), LAMBDA table :
              IF ~table.ok THEN Failed(<<>>)
              ELSE SqliteSchema_from_page(f, page, i + 1,
                                          Append(tables, table.val))))

\* the pages whose bytes OverflowPage::from_file reads for the page a
\* record reader asked for: read_to_end returns those of the file from
\* that page to its end, none when the page lies past the end
overflow_pages_read(f, asked) ==
    IF asked.some /\ asked.val \in 1..Len(f)
    THEN [k \in 1..(Len(f) - asked.val + 1) |-> asked.val + k - 1]
    ELSE <<>>

\* the pages SqliteSchema::from_page of main.rs reads from cell i on, up
\* to the cell at which it fails
RECURSIVE schema_pages_read(_, _, _)
schema_pages_read(f, page, i) ==
    IF i >= page.header.num_cells THEN <<>>
    ELSE Bind(main_read_record(f, page, i), LAMBDA record :
         overflow_pages_read(f, record.overflow)
            \o (IF record.ok /\ Table_from_row(record.val).ok
                THEN schema_pages_read(f, page, i + 1) ELSE <<>>))

\* the `.tables` branch of main: the lines printed, or the failure
tables_command(b) ==
    Bind(DbHeader_from_file(b), LAMBDA dbheader :
        IF ~dbheader.ok \/ dbheader.val.page_size = 0 THEN Failed(<<>>)
        ELSE
    Bind(FilePages(b, dbheader.val.page_size), LAMBDA f :
    Bind(Page_from_file(f, TABLESCHEMA_PAGE), LAMBDA page :
        IF ~page.ok THEN Failed(<<>>)
        ELSE
    Bind(SqliteSchema_from_page(f, page.val, 0, <<>>), LAMBDA tables :
        IF ~tables.ok THEN Failed(<<>>)
        ELSE Ok([i \in 1..Len(tables.val) |-> tables.val[i].name])))))

\* schema.tables.iter().find(|t| t.name == tablename)
find_table(tables, tablename) ==
    IF \E j \in 1..Len(tables) : tables[j].name = tablename
    THEN Some(tables[CHOOSE j \in 1..Len(tables) :
                        /\ tables[j].name = tablename
                        /\ \A k \in 1..(j - 1) : tables[k].name # tablename])
    ELSE None

\* columns.iter().position(|c| c.name == name), counted from 0
position(columns, name) ==
    IF \E j \in 1..Len(columns) : columns[j] = name
    THEN Some((CHOOSE j \in 1..Len(columns) :
                  /\ columns[j] = name
                  /\ \A k \in 1..(j - 1) : columns[k] # name) - 1)
    ELSE None

\* Loops that give a name the table lacks the index 0.
indices_of_cols_lenient(names, columns) ==
    Ok([i \in 1..Len(names) |->
           IF position(columns, names[i]).some
           THEN position(columns, names[i]).val ELSE 0])

\* the loops that fill indices_of_selected_cols and indices_of_where_cols:
\* the position of every name, or the panic "Column not found"
RECURSIVE indices_of_cols(_, _)
indices_of_cols(names, columns) ==
    IF names = <<>> THEN Ok(<<>>)
    ELSE Bind(position(columns, Head(names)), LAMBDA ix :
         Bind(indices_of_cols(Tail(names), columns), LAMBDA rest :
             IF ix.some /\ rest.ok THEN Ok(<<ix.val>> \o rest.val)
             ELSE Failed(<<>>)))

NoResolved == [rootpage |-> 0, selected |-> <<>>, where |-> <<>>]

\* the SELECT branch up to the scan: the table of the schema, its parsed
\* columns, and the indices of the selected and of the WHERE columns
resolve(tables, stmt) ==
    Bind(find_table(tables, stmt.table), LAMBDA table :
        IF ~table.some THEN Failed(NoResolved)
        ELSE IF table.val.sql.kind # "CreateTable" THEN Failed(NoResolved)
        ELSE
    Bind(indices_of_cols(stmt.columns, table.val.sql.columns), LAMBDA selected :
    Bind(indices_of_cols([i \in 1..Len(stmt.where_clause) |->
                             stmt.where_clause[i].column],
                         table.val.sql.columns), LAMBDA where :
        IF ~selected.ok \/ ~where.ok THEN Failed(NoResolved)
        ELSE Ok([rootpage |-> table.val.rootpage,
                 selected |-> selected.val, where |-> where.val]))))

\* the COUNT branch: the line printed, or the failure
count_line(f, tables, tablename) ==
    Bind(find_table(tables, tablename), LAMBDA table :
        IF ~table.some THEN Failed(<<>>)
        ELSE Bind(Page_from_file(f, table.val.rootpage), LAMBDA page :
             IF ~page.ok THEN Failed(<<>>)
             ELSE Ok(to_string(page.val.header.num_cells))))

\* where_clause.iter().find(|c| c.column == where_clause[i].column)
\*     .unwrap().value, with i counted from 1
where_clause_val(where_clause, i) ==
    where_clause[CHOOSE j \in 1..Len(where_clause) :
                    /\ where_clause[j].column = where_clause[i].column
                    /\ \A k \in 1..(j - 1) :
                          where_clause[k].column # where_clause[i].column].value

\* the inner loop of the post-filter from clause i on: "keep" when the loop
\* ends, "skip" at `continue 'outer`, "panic" at the panic or at an index
\* past the record's values
RECURSIVE post_filter(_, _, _, _)
post_filter(record, indices_of_where_cols, where_clause, i) ==
    IF i > Len(indices_of_where_cols) THEN "keep"
    ELSE LET where_idx == indices_of_where_cols[i]
         IN  IF where_idx >= Len(record.values) THEN "panic"
             ELSE LET where_col_val == record.values[where_idx + 1]
                  IN  CASE where_col_val.tag = "Text" ->
                             IF where_col_val.val # where_clause_val(where_clause, i)
                             THEN "skip"
                             ELSE post_filter(record, indices_of_where_cols,
                                              where_clause, i + 1)
                        [] where_col_val.tag = "Null" -> "skip"
                        [] OTHER -> "panic"

\* A loop that pushes nothing for a value that is neither TEXT nor NULL.
selected_texts_lenient(record, indices) ==
    Ok(SelectSeq([i \in 1..Len(indices) |->
                     IF indices[i] < Len(record.values)
                        /\ record.values[indices[i] + 1].tag = "Text"
                     THEN record.values[indices[i] + 1].val ELSE <<-1>>],
                 LAMBDA t : t # <<-1>>))

\* the loop over indices_of_selected_cols: the texts pushed, a NULL pushing
\* nothing, any other value panicking
RECURSIVE selected_texts(_, _)
selected_texts(record, indices) ==
    IF indices = <<>> THEN Ok(<<>>)
    ELSE IF Head(indices) >= Len(record.values) THEN Failed(<<>>)
    ELSE LET v == record.values[Head(indices) + 1]
         IN  IF v.tag \notin {"Text", "Null"} THEN Failed(<<>>)
             ELSE Bind(selected_texts(record, Tail(indices)), LAMBDA rest :
                  IF ~rest.ok THEN Failed(<<>>)
                  ELSE Ok((IF v.tag = "Text" THEN <<v.val>> ELSE <<>>) \o rest.val))

\* selected_record_cols of one record: the row-id first when the query
\* names `id`, then the selected texts
selected_record_cols(record, cols, indices) ==
    Bind(selected_texts(record, indices), LAMBDA texts :
        IF ~texts.ok THEN Failed(<<>>)
        ELSE Ok((IF \E j \in 1..Len(cols) : cols[j] = "id"
                 THEN <<to_string(record.rowid)>> ELSE <<>>) \o texts.val))

\* what processing one record does: skip it, print a line, or panic
process_record(record, stmt, res) ==
    Bind(post_filter(record, res.where, stmt.where_clause, 1), LAMBDA verdict :
        IF verdict = "panic" THEN [kind |-> "panic", line |-> <<>>]
        ELSE IF verdict = "skip" THEN [kind |-> "skip", line |-> <<>>]
        ELSE Bind(selected_record_cols(record, stmt.columns, res.selected),
                  LAMBDA cols :
             IF ~cols.ok THEN [kind |-> "panic", line |-> <<>>]
             ELSE [kind |-> "print", line |-> join(cols.val, <<124>>)]))

-----------------------------------------------------------------------------
(* The SQLite varint encoding of a 64-bit word (file format, spec section  *)
(* 3): nine bytes when any of the top eight bits is set, else the fewest   *)
(* 7-bit groups, big-endian, every byte but the last with its high bit set.*)

HighBit(w) == IF w = Zero64 THEN 0 ELSE CHOOSE i \in BitIx :
                  w[i] = 1 /\ \A j \in BitIx : j > i => w[j] = 0

VarintWidth(w) ==
    IF \E i \in 56..63 : w[i] = 1 THEN 9
    ELSE (HighBit(w) \div 7) + 1

put_varint(w) ==
    LET n == VarintWidth(w)
    IN  IF n = 9
        THEN [k \in 1..9 |->
                 IF k = 9 THEN Field(w, 0, 8)
                 ELSE 128 + Field(w, 8 + 7 * (8 - k), 7)]
        ELSE [k \in 1..n |->
                 (IF k < n THEN 128 ELSE 0) + Field(w, 7 * (n - k), 7)]

-----------------------------------------------------------------------------
(* Well-formed database files (file format, spec section 3).  A table is a *)
(* sequence of rows in row-id order laid out over a table B-tree; an index *)
(* on a column holds one entry (key, row-id) per row, in (key, row-id)     *)
(* order, laid out over an index B-tree whose interior cells carry entries *)
(* too.  Cells are packed at the end of their page, the first cell last.   *)

RECURSIVE Concat(_)
Concat(ss) == IF ss = <<>> THEN <<>> ELSE Head(ss) \o Concat(Tail(ss))

\* a stored column value: NULL, an integer 0..127, or a text
StoredNull == [t |-> "null", n |-> 0, b |-> <<>>]
StoredInt(n) == [t |-> "int", n |-> n, b |-> <<>>]
StoredText(b) == [t |-> "text", n |-> 0, b |-> b]

\* the serial type SQLite gives a stored value, and the value's body
SerialCodeOf(v) ==
    CASE v.t = "null" -> 0
      [] v.t = "int"  -> IF v.n = 0 THEN 8 ELSE IF v.n = 1 THEN 9 ELSE 1
      [] v.t = "text" -> 13 + 2 * Len(v.b)
BodyOf(v) ==
    CASE v.t = "null" -> <<>>
      [] v.t = "int"  -> IF v.n \in {0, 1} THEN <<>> ELSE <<v.n>>
      [] v.t = "text" -> v.b

Varint(n) == put_varint(FromNat(n))

U16Bytes(n) == <<n \div 256, n % 256>>
U32Bytes(n) == <<0, 0, n \div 256, n % 256>>

\* a record payload: header length, serial types, bodies
EncodeRecord(vals) ==
    LET types == Concat([k \in 1..Len(vals) |-> Varint(SerialCodeOf(vals[k]))])
    IN  Varint(1 + Len(types)) \o types
            \o Concat([k \in 1..Len(vals) |-> BodyOf(vals[k])])

TableLeafCell(row) ==
    LET payload == EncodeRecord(row.vals)
    IN  Varint(Len(payload)) \o Varint(row.rowid) \o payload

TableInteriorCell(left_page, key) == U32Bytes(left_page) \o Varint(key)

IndexLeafCell(entry) ==
    LET payload == EncodeRecord(<<entry.key, StoredInt(entry.rowid)>>)
    IN  Varint(Len(payload)) \o payload

IndexInteriorCell(left_page, entry) == U32Bytes(left_page) \o IndexLeafCell(entry)

RECURSIVE SumLen(_, _)
SumLen(cells, n) == IF n = 0 THEN 0 ELSE Len(cells[n]) + SumLen(cells, n - 1)

Reverse(q) == [k \in 1..Len(q) |-> q[Len(q) + 1 - k]]

\* the bytes of a page of type page_type holding `cells` in cell order
BuildPage(page_type, cells, rightmost_pointer) ==
    LET interior == page_type \in {2, 5}
        n        == Len(cells)
        content  == PageSize - SumLen(cells, n)
        header   == <<page_type, 0, 0>> \o U16Bytes(n) \o U16Bytes(content) \o <<0>>
                        \o (IF interior THEN U32Bytes(rightmost_pointer) ELSE <<>>)
        pointers == Concat([i \in 1..n |-> U16Bytes(PageSize - SumLen(cells, i))])
    IN  header \o pointers
            \o Zeros(content - Len(header) - Len(pointers))
            \o Concat(Reverse(cells))

\* the bytes of a page of page_size bytes that starts with `prefix` (the
\* database header on page 1, nothing on the others) and holds `cells`
BuildPageAt(prefix, page_size, page_type, cells, rightmost_pointer) ==
    LET interior == page_type \in {2, 5}
        n        == Len(cells)
        content  == page_size - SumLen(cells, n)
        header   == <<page_type, 0, 0>> \o U16Bytes(n) \o U16Bytes(content) \o <<0>>
                        \o (IF interior THEN U32Bytes(rightmost_pointer) ELSE <<>>)
        pointers == Concat([i \in 1..n |-> U16Bytes(page_size - SumLen(cells, i))])
    IN  prefix \o header \o pointers
            \o Zeros(content - Len(prefix) - Len(header) - Len(pointers))
            \o Concat(Reverse(cells))

\* the 100 bytes of a database header that gives the page size
DbHeaderBytes(page_size) ==
    [k \in 1..100 |-> IF k = 17 THEN page_size \div 256
                      ELSE IF k = 18 THEN page_size % 256 ELSE 0]

\* the row of the schema table for a schema element, its row-id its position
SchemaRow(e, i) ==
    [rowid |-> i,
     vals  |-> <<StoredText(e.type), StoredText(e.name), StoredText(e.tbl_name),
                 StoredInt(e.rootpage), StoredText(e.sql)>>]

\* page 1 of a file of pages of page_size bytes: the database header, then
\* the table leaf page of the schema elements
SchemaPage(elements, page_size) ==
    BuildPageAt(DbHeaderBytes(page_size), page_size, 13,
                [i \in 1..Len(elements) |-> TableLeafCell(SchemaRow(elements[i], i))],
                0)

\* the sequences of positive numbers that sum to n: the ways to cut n rows
\* into leaves (one empty leaf for no rows)
RECURSIVE Compositions(_)
Compositions(n) ==
    IF n = 0 THEN {<<0>>}
    ELSE {<<n>>} \cup UNION {{<<k>> \o c : c \in Compositions(n - k)} : k \in 1..(n - 1)}

RECURSIVE SumSeq(_, _)
SumSeq(q, n) == IF n = 0 THEN 0 ELSE q[n] + SumSeq(q, n - 1)

\* part j of seq cut as the composition `parts` says
Part(seq, parts, j) ==
    SubSeq(seq, SumSeq(parts, j - 1) + 1, SumSeq(parts, j))

\* the page number of the table's root; page 1 is the schema page
TableRoot == 2

\* the leaf page of rows
TableLeafPage(rows) ==
    BuildPage(13, [i \in 1..Len(rows) |-> TableLeafCell(rows[i])], 0)

\* the interior page over the leaves first..last of the k leaves `parts`
\* cuts, leaf j on page leaf_page + j: one cell per leaf but the last, keyed
\* by the leaf's largest row-id, and the last leaf as the rightmost pointer
TableInteriorPage(rows, parts, first, last, leaf_page) ==
    BuildPage(5,
        [j \in 1..(last - first) |->
            TableInteriorCell(leaf_page + first + j - 1,
                Part(rows, parts, first + j - 1)
                    [Len(Part(rows, parts, first + j - 1))].rowid)],
        leaf_page + last)

\* the pages of a table B-tree, from page TableRoot on: one leaf; or an
\* interior root over one leaf per part; or (deep, three parts or more) a
\* root over an interior page, which holds every leaf but the last, and the
\* last leaf
TablePages(rows, parts, deep) ==
    LET k == Len(parts)
        leaves == [j \in 1..k |-> TableLeafPage(Part(rows, parts, j))]
    IN  IF k = 1 THEN <<TableLeafPage(rows)>>
        ELSE IF ~deep
        THEN <<TableInteriorPage(rows, parts, 1, k, TableRoot)>> \o leaves
        ELSE <<BuildPage(5,
                   <<TableInteriorCell(TableRoot + 1,
                         Part(rows, parts, k - 1)
                             [Len(Part(rows, parts, k - 1))].rowid)>>,
                   TableRoot + 1 + k),
               TableInteriorPage(rows, parts, 1, k - 1, TableRoot + 1)>> \o leaves

\* the shapes a table of the parts admits
Depths(parts) == IF Len(parts) >= 3 THEN BOOLEAN ELSE {FALSE}

\* index order: NULL, then integers by value, then texts by their bytes;
\* equal keys by row-id
KeyLess(a, b) ==
    \/ a.t = "null" /\ b.t # "null"
    \/ a.t = "int" /\ b.t = "text"
    \/ a.t = "int" /\ b.t = "int" /\ a.n < b.n
    \/ a.t = "text" /\ b.t = "text" /\ StrGreater(b.b, a.b)
EntryLess(d, e) == KeyLess(d.key, e.key) \/ (d.key = e.key /\ d.rowid < e.rowid)

RECURSIVE SortedEntries(_)
SortedEntries(S) ==
    IF S = {} THEN <<>>
    ELSE LET m == CHOOSE e \in S : \A o \in S \ {e} : EntryLess(e, o)
         IN  <<m>> \o SortedEntries(S \ {m})

\* the entries of the index on column `col` of the rows
IndexEntries(rows, col) ==
    SortedEntries({[key |-> rows[i].vals[col], rowid |-> rows[i].rowid] :
                      i \in 1..Len(rows)})

\* the pages of an index B-tree from page first_page on: one leaf (split =
\* 0), or an interior root whose one cell holds entry `split` over a leaf
\* of the entries before it and a leaf of the entries after it
IndexPages(entries, split, first_page) ==
    IF split = 0
    THEN <<BuildPage(10, [i \in 1..Len(entries) |-> IndexLeafCell(entries[i])], 0)>>
    ELSE <<BuildPage(2, <<IndexInteriorCell(first_page + 1, entries[split])>>,
                     first_page + 2),
           BuildPage(10, [i \in 1..(split - 1) |-> IndexLeafCell(entries[i])], 0),
           BuildPage(10, [i \in 1..(Len(entries) - split) |->
                             IndexLeafCell(entries[split + i])], 0)>>

\* the splits an index of n entries admits with no empty leaf
IndexSplits(n) == {0} \cup 2..(n - 1)

-----------------------------------------------------------------------------
(* Varint codec: encode a word, then decode the encoding.                  *)

\* how many bits of an input word may be set
MaxSetBits == 2

\* the bit positions at the borders of the 7-bit groups, and the top byte
BorderBits == {0, 6, 7, 13, 14, 20, 21, 27, 28, 34, 35, 41, 42, 48, 49, 55}
                  \cup (56..63)

VarintInputs ==
    {WordOf(S) : S \in {T \in SUBSET BorderBits : Cardinality(T) <= MaxSetBits}}
        \cup {WordOf(0..p) : p \in BitIx}

NoResult == <<Zero64, 0>>

VarintIdle ==
    /\ vpc = "idle"
    /\ vin = Zero64
    /\ venc = <<>>
    /\ vout = NoResult

VarintInit ==
    /\ vpc = "input"
    /\ vin \in VarintInputs
    /\ venc = <<>>
    /\ vout = NoResult

VarintEncode ==
    /\ vpc = "input"
    /\ venc' = put_varint(vin)
    /\ vpc' = "encoded"
    /\ UNCHANGED <<vin, vout, otherThanVarint>>

VarintDecode ==
    /\ vpc = "encoded"
    /\ vout' = decode_varint(venc)
    /\ vpc' = "decoded"
    /\ UNCHANGED <<vin, venc, otherThanVarint>>

\* the slice cut short: a proper prefix of the encoding, every byte of
\* which has its high bit set
VarintCut ==
    /\ vpc = "encoded"
    /\ \E n \in 1..(Len(venc) - 1) : venc' = SubSeq(venc, 1, n)
    /\ vpc' = "cut"
    /\ UNCHANGED <<vin, vout, otherThanVarint>>

\* decode_varint on the cut slice.  Its return type (u64, usize) holds no
\* error: the loop ends with the slice and the function returns what it
\* has accumulated.
VarintDecodeCut ==
    /\ vpc = "cut"
    /\ vout' = decode_varint(venc)
    /\ vpc' = "returned"
    /\ UNCHANGED <<vin, venc, otherThanVarint>>

VarintNext == VarintEncode \/ VarintDecode \/ VarintCut \/ VarintDecodeCut

-----------------------------------------------------------------------------
(* Serial-type codec: decode a record header's serial types, then read the *)
(* column bodies as the record reader does.                                *)

\* the largest serial type code of an input header
MaxSerialCode == 15

\* how many serial types an input header may hold
MaxCols == 2

\* the length of an input body: two columns of the widest fixed type
BodyLen == 16

RECURSIVE SeqsUpTo(_, _)
SeqsUpTo(S, n) ==
    IF n = 0 THEN {<<>>}
    ELSE LET shorter == SeqsUpTo(S, n - 1)
         IN  shorter \cup {Append(q, x) : q \in {r \in shorter : Len(r) = n - 1},
                                           x \in S}

\* the serial type bytes of a record header holding `codes`
HeaderBytes(codes) == Concat([k \in 1..Len(codes) |-> put_varint(FromNat(codes[k]))])

\* serial type codes whose varint takes two bytes
WideCodes == {128, 129, 130, 131}

SerialCodeSeqs == SeqsUpTo((0..MaxSerialCode) \cup WideCodes, MaxCols) \ {<<>>}

\* bodies of consecutive byte values from a start: low, around the sign
\* bit, and high
BodyStarts == {0, 120, 250}
Bodies == {[k \in 1..BodyLen |-> (s + k) % 256] : s \in BodyStarts}

NoTypes == Failed(<<>>)
NoValues == [ok |-> FALSE, val |-> <<>>, offset |-> 0]

SerialIdle ==
    /\ spc = "idle"
    /\ sheader = <<>>
    /\ sbody = <<>>
    /\ stypes = NoTypes
    /\ svalues = NoValues

SerialInit ==
    /\ spc = "input"
    /\ sheader \in {HeaderBytes(c) : c \in SerialCodeSeqs}
    /\ sbody \in Bodies
    /\ stypes = NoTypes
    /\ svalues = NoValues

SerialDecodeTypes ==
    /\ spc = "input"
    /\ stypes' = decode_serial_types(sheader)
    /\ spc' = IF stypes'.ok THEN "typed" ELSE "panicked"
    /\ UNCHANGED <<sheader, sbody, svalues, otherThanSerial>>

SerialReadValues ==
    /\ spc = "typed"
    /\ svalues' = read_values(sbody, 0, stypes.val, <<>>)
    /\ spc' = IF svalues'.ok THEN "read" ELSE "panicked"
    /\ UNCHANGED <<sheader, sbody, stypes, otherThanSerial>>

SerialNext == SerialDecodeTypes \/ SerialReadValues

-----------------------------------------------------------------------------
(* B-tree walkers over a table and an index on its column IndexedCol:      *)
(* scan the table, look up one scanned row by its row-id, probe the index. *)

\* how many rows a table may hold
MaxRows == 3

\* the texts "aaaaaa", "bbbbbb" and "cccccc"
TextA == <<97, 97, 97, 97, 97, 97>>
TextB == <<98, 98, 98, 98, 98, 98>>
TextC == <<99, 99, 99, 99, 99, 99>>

\* the values of the indexed column, and the keys probed
ColumnValues == {StoredNull, StoredText(TextA), StoredText(TextB)}
ProbeKeys == {TextA, TextB, TextC}

\* the row-ids of the first row; later rows follow consecutively
FirstRowids == {1, 2}

\* a row: column 1 is the INTEGER PRIMARY KEY alias, stored as NULL;
\* column 2 is the indexed column
IndexedCol == 2
WalkRows(n, first, vals) ==
    [i \in 1..n |-> [rowid |-> first + i - 1, vals |-> <<StoredNull, vals[i]>>]]

WalkTables ==
    UNION {{WalkRows(n, first, vals) : first \in FirstRowids,
                                        vals \in [1..n -> ColumnValues]} :
              n \in 0..MaxRows}

\* page 1 (the schema page, whose bytes the walkers never read), the table
\* from page TableRoot on, then the index
WalkFile(rows, parts, deep, split) ==
    LET table == TablePages(rows, parts, deep)
    IN  <<Zeros(PageSize)>> \o table
            \o IndexPages(IndexEntries(rows, IndexedCol), split,
                          TableRoot + Len(table))

\* every page of the file has the page size
WellSized(f) == \A p \in 1..Len(f) : Len(f[p]) = PageSize

NoWalk == Walked(FALSE, <<>>, <<>>)

WalkIdle ==
    /\ wpc = "idle"
    /\ index_root = 0
    /\ scan = NoWalk
    /\ mscan = NoWalk
    /\ wrow = NoRecord
    /\ lookup = NoWalk
    /\ wkey = <<>>
    /\ idx = NoWalk

WalkInit ==
    /\ wpc = "input"
    /\ \E rows \in WalkTables :
         \E parts \in Compositions(Len(rows)), split \in IndexSplits(Len(rows)) :
            \E deep \in Depths(parts) :
                /\ WellSized(WalkFile(rows, parts, deep, split))
                /\ file = WalkFile(rows, parts, deep, split)
                /\ index_root = TableRoot + Len(TablePages(rows, parts, deep))
    /\ scan = NoWalk
    /\ mscan = NoWalk
    /\ wrow = NoRecord
    /\ lookup = NoWalk
    /\ wkey = <<>>
    /\ idx = NoWalk

WalkFullScan ==
    /\ wpc = "input"
    /\ scan' = full_table_scan(file, TableRoot, 0)
    /\ wpc' = "scanned"
    /\ UNCHANGED <<file, index_root, mscan, wrow, lookup, wkey, idx, otherThanWalk>>

WalkMainFullScan ==
    /\ wpc = "scanned"
    /\ mscan' = main_full_table_scan(file, TableRoot, 0)
    /\ wpc' = "mscanned"
    /\ UNCHANGED <<file, index_root, scan, wrow, lookup, wkey, idx, otherThanWalk>>

WalkRowLookup ==
    /\ wpc = "mscanned"
    /\ scan.ok
    /\ \E i \in 1..Len(scan.val) :
          /\ wrow' = scan.val[i]
          /\ lookup' = row_lookup(file, TableRoot, rowid_of(scan.val[i]).val, 0)
    /\ wpc' = "looked"
    /\ UNCHANGED <<file, index_root, scan, mscan, wkey, idx, otherThanWalk>>

WalkIndexScan ==
    /\ wpc = "scanned"
    /\ \E key \in ProbeKeys :
          /\ wkey' = key
          /\ idx' = index_scan(file, index_root, key, 0)
    /\ wpc' = "probed"
    /\ UNCHANGED <<file, index_root, scan, mscan, wrow, lookup, otherThanWalk>>

WalkNext == WalkFullScan \/ WalkMainFullScan \/ WalkRowLookup \/ WalkIndexScan

-----------------------------------------------------------------------------
(* The executor on well-formed files: the table `t` with the columns id    *)
(* (the row-id alias, stored as NULL) and name, with or without an index   *)
(* on name, under COUNT and projection commands.                           *)

\* a value of the column `name` that is neither TEXT nor NULL
StoredSeven == StoredInt(7)

\* the tables of texts and NULLs, and those whose last row holds an integer
ExecTables ==
    UNION {{WalkRows(n, 1, vals) :
               vals \in {v \in [1..n -> ColumnValues \cup {StoredSeven}] :
                            \A i \in 1..(n - 1) : v[i] # StoredSeven}} :
              n \in 0..MaxRows}

\* the schema of a file whose table and index WalkFile laid out
ExecSchema(index_page, indexed) ==
    <<Table("table", "t", "t", TableRoot, CreateTableStmt(<<"id", "name">>))>>
        \o (IF indexed
            THEN <<Table("index", "idx_t_name", "t", index_page,
                         CreateIndexStmt("name"))>>
            ELSE <<>>)

ColumnLists == {<<"name">>, <<"id">>, <<"id", "name">>, <<"name", "id">>, <<"zip">>}

WhereLists ==
    {<<>>,
     <<WhereClause("name", TextA)>>,
     <<WhereClause("name", TextB)>>,
     <<WhereClause("name", TextA), WhereClause("name", TextB)>>,
     <<WhereClause("name", TextB), WhereClause("name", TextA)>>,
     <<WhereClause("name", TextA), WhereClause("name", TextA)>>,
     <<WhereClause("zip", TextA)>>}

Commands ==
    {CountCommand("t"), CountCommand("u"), SelectStmt(<<"name">>, "u", <<>>)}
        \cup {SelectStmt(cols, "t", where) : cols \in ColumnLists, where \in WhereLists}

ExecIdle ==
    /\ pc = "idle"
    /\ schema = <<>>
    /\ query = CountCommand("")
    /\ resolved = NoResolved
    /\ records = <<>>
    /\ cursor = 0
    /\ out = <<>>
    /\ calls = <<>>

ExecInit ==
    /\ pc = "start"
    /\ \E rows \in ExecTables :
         \E parts \in Compositions(Len(rows)), indexed \in BOOLEAN :
            /\ WellSized(WalkFile(rows, parts, FALSE, 0))
            /\ file = WalkFile(rows, parts, FALSE, 0)
            /\ schema = ExecSchema(TableRoot + Len(TablePages(rows, parts, FALSE)),
                                   indexed)
    /\ query \in Commands
    /\ resolved = NoResolved
    /\ records = <<>>
    /\ cursor = 0
    /\ out = <<>>
    /\ calls = <<>>

\* main.rs, the SELECT COUNT(*) branch
ExecCount ==
    /\ pc = "start"
    /\ query.kind = "count"
    /\ LET line == count_line(file, schema, query.table)
       IN  /\ pc' = IF line.ok THEN "done" ELSE "failed"
           /\ out' = IF line.ok THEN Append(out, [row |-> 0, line |-> line.val])
                     ELSE out
    /\ UNCHANGED <<file, schema, query, resolved, records, cursor, calls,
                   otherThanExec>>

\* main.rs, the SELECT branch up to the scan
ExecResolve ==
    /\ pc = "start"
    /\ query.kind = "select"
    /\ LET res == resolve(schema, query)
       IN  /\ pc' = IF res.ok THEN "resolved" ELSE "failed"
           /\ resolved' = res.val
    /\ UNCHANGED <<file, schema, query, records, cursor, out, calls, otherThanExec>>

\* main.rs, the one walker the SELECT branch calls
ExecScan ==
    /\ pc = "resolved"
    /\ LET scanned == main_full_table_scan(file, resolved.rootpage, 0)
       IN  /\ pc' = IF scanned.ok THEN "rows" ELSE "failed"
           /\ records' = scanned.val
    /\ calls' = Append(calls, "full_table_scan")
    /\ UNCHANGED <<file, schema, query, resolved, cursor, out, otherThanExec>>

\* main.rs, one iteration of the loop over the scanned records
ExecRow ==
    /\ pc = "rows"
    /\ cursor < Len(records)
    /\ LET done == process_record(records[cursor + 1], query, resolved)
       IN  /\ pc' = IF done.kind = "panic" THEN "failed" ELSE "rows"
           /\ out' = IF done.kind = "print"
                     THEN Append(out, [row |-> cursor + 1, line |-> done.line])
                     ELSE out
    /\ cursor' = cursor + 1
    /\ UNCHANGED <<file, schema, query, resolved, records, calls, otherThanExec>>

\* main.rs, the end of the loop and Ok(())
ExecExit ==
    /\ pc = "rows"
    /\ cursor = Len(records)
    /\ pc' = "done"
    /\ UNCHANGED <<file, schema, query, resolved, records, cursor, out, calls,
                   otherThanExec>>

ExecNext == ExecCount \/ ExecResolve \/ ExecScan \/ ExecRow \/ ExecExit

-----------------------------------------------------------------------------
(* The record readers on the table leaf cells of well-formed files, those  *)
(* whose payloads lie on the page and those of one row whose payload       *)
(* spills to overflow pages: read one cell with the reader of page_io.rs,  *)
(* then with the reader of main.rs.                                        *)

NoRead == ReadOf(FALSE, NoRecord, None)
NoMainRead == ReadOf(FALSE, NoMainRecord, None)

RecordIdle ==
    /\ rpc = "idle"
    /\ rnum = 0
    /\ rcell = 0
    /\ rrec = NoRead
    /\ rmain = NoMainRead

\* the lengths of the texts that do not fit on a page, and how many bytes
\* of the payload stay on the page
SpillTextLens == {50, 90}
SpillLocals == {10, 24}

\* a text of n bytes, no two neighbours equal
SpillText(n) == [i \in 1..n |-> 97 + (i % 3)]

\* the overflow pages from page p on that hold the bytes `rest`: each the
\* number of the next page (0 on the last), then its share of the bytes
RECURSIVE OverflowPages(_, _)
OverflowPages(rest, p) ==
    IF Len(rest) <= PageSize - 4
    THEN <<U32Bytes(0) \o rest \o Zeros(PageSize - 4 - Len(rest))>>
    ELSE <<U32Bytes(p + 1) \o SubSeq(rest, 1, PageSize - 4)>>
            \o OverflowPages(SubSeq(rest, PageSize - 3, Len(rest)), p + 1)

\* a table of one row whose payload spills: page 1, the leaf whose only
\* cell ends the page with the first `on_page` bytes of the payload and
\* the number of the first overflow page, then the overflow chain
SpillFile(rowid, n, on_page) ==
    LET payload == EncodeRecord(<<StoredNull, StoredText(SpillText(n))>>)
        cell    == Varint(Len(payload)) \o Varint(rowid)
                       \o SubSeq(payload, 1, on_page) \o U32Bytes(TableRoot + 1)
    IN  <<Zeros(PageSize), BuildPage(13, <<cell>>, 0)>>
            \o OverflowPages(SubSeq(payload, on_page + 1, Len(payload)),
                             TableRoot + 1)

RecordInit ==
    /\ rpc = "input"
    /\ \/ \E rows \in WalkTables :
            \E parts \in Compositions(Len(rows)) :
               /\ WellSized(WalkFile(rows, parts, FALSE, 0))
               /\ file = WalkFile(rows, parts, FALSE, 0)
       \/ \E rowid \in FirstRowids, n \in SpillTextLens, on_page \in SpillLocals :
               /\ WellSized(SpillFile(rowid, n, on_page))
               /\ file = SpillFile(rowid, n, on_page)
    /\ rnum = 0
    /\ rcell = 0
    /\ rrec = NoRead
    /\ rmain = NoMainRead

\* read_record of page_io.rs on a cell of a table leaf page
RecordRead ==
    /\ rpc = "input"
    /\ \E p \in 1..Len(file) :
          /\ file[p][1] = 13
          /\ Page_from_file(file, p).ok
          /\ \E i \in 0..(Page_from_file(file, p).val.header.num_cells - 1) :
                /\ rnum' = p
                /\ rcell' = i
                /\ rrec' = read_record(file, Page_from_file(file, p).val, i, 1)
    /\ rpc' = "read"
    /\ UNCHANGED <<file, rmain, otherThanRecord>>

\* read_record of main.rs on the same cell
RecordMainRead ==
    /\ rpc = "read"
    /\ rmain' = main_read_record(file, Page_from_file(file, rnum).val, rcell)
    /\ rpc' = "mread"
    /\ UNCHANGED <<file, rnum, rcell, rrec, otherThanRecord>>

RecordNext == RecordRead \/ RecordMainRead

-----------------------------------------------------------------------------
(* The page loader and the schema reader on files given as bytes: load a   *)
(* page by its number, or run `.tables`.  Page 1 holds the schema          *)
(* elements; pages 2 and 3 are table pages, leaf or interior.              *)

\* the page size of the files
SchemaPageSize == 192

\* how many elements a schema may hold
MaxElements == 3

\* the texts "table", "index", "view" and "CREATE"
TextTable == <<116, 97, 98, 108, 101>>
TextIndex == <<105, 110, 100, 101, 120>>
TextView == <<118, 105, 101, 119>>
TextCreate == <<67, 82, 69, 65, 84, 69>>

\* a table `t` on page 2, an index `i` on it on page 3, and a view `v`,
\* which has no page: its rootpage is 0
Elements ==
    {[type |-> TextTable, name |-> <<116>>, tbl_name |-> <<116>>,
      rootpage |-> 2, sql |-> TextCreate],
     [type |-> TextIndex, name |-> <<105>>, tbl_name |-> <<116>>,
      rootpage |-> 3, sql |-> TextCreate],
     [type |-> TextView, name |-> <<118>>, tbl_name |-> <<118>>,
      rootpage |-> 0, sql |-> TextCreate]}

\* the schemas: the elements in any order, none twice
ElementSeqs ==
    {q \in SeqsUpTo(Elements, MaxElements) :
        \A i, j \in 1..Len(q) : i # j => q[i] # q[j]}

\* the pages after page 1: table leaves of no and of two cells, table
\* interior pages of one and of two cells
OtherPages ==
    {BuildPageAt(<<>>, SchemaPageSize, 13, <<>>, 0),
     BuildPageAt(<<>>, SchemaPageSize, 13,
                 <<TableLeafCell([rowid |-> 1, vals |-> <<StoredNull, StoredText(TextA)>>]),
                   TableLeafCell([rowid |-> 2, vals |-> <<StoredNull, StoredText(TextB)>>])>>,
                 0),
     BuildPageAt(<<>>, SchemaPageSize, 5, <<TableInteriorCell(3, 1)>>, 3),
     BuildPageAt(<<>>, SchemaPageSize, 5,
                 <<TableInteriorCell(3, 1), TableInteriorCell(3, 2)>>, 3)}

NoPageLoaded == [number |-> 0, page |-> Failed(NoPage)]

PageIdle ==
    /\ tpc = "idle"
    /\ dbfile = <<>>
    /\ tpage = NoPageLoaded
    /\ tlines = <<>>

NoSchema == Failed(<<>>)

OrderIdle ==
    /\ opc = "idle"
    /\ reads = <<>>
    /\ built = NoSchema

PageInit ==
    /\ tpc = "start"
    /\ \E elements \in ElementSeqs, p2 \in OtherPages, p3 \in OtherPages :
          dbfile = SchemaPage(elements, SchemaPageSize) \o p2 \o p3
    /\ tpage = NoPageLoaded
    /\ tlines = <<>>

\* DbHeader::from_file, then Page::from_file for a page the file holds
PageLoad ==
    /\ tpc = "start"
    /\ DbHeader_from_file(dbfile).ok
    /\ LET page_size == DbHeader_from_file(dbfile).val.page_size
       IN  \E p \in 1..(Len(dbfile) \div page_size) :
              tpage' = [number |-> p,
                        page |-> Page_from_file(FilePages(dbfile, page_size), p)]
    /\ tpc' = "loaded"
    /\ UNCHANGED <<dbfile, tlines, otherThanPage>>

\* main.rs, the `.tables` branch
TablesCommand ==
    /\ tpc = "start"
    /\ LET lines == tables_command(dbfile)
       IN  /\ tlines' = lines.val
           /\ tpc' = IF lines.ok THEN "printed" ELSE "failed"
    /\ UNCHANGED <<dbfile, tpage, otherThanPage>>

PageNext == PageLoad \/ TablesCommand

-----------------------------------------------------------------------------
(* Specifications                                                          *)

InitVarint ==
    /\ VarintInit /\ SerialIdle /\ WalkIdle /\ ExecIdle /\ RecordIdle /\ PageIdle /\ OrderIdle
    /\ file = <<>>

SpecVarint == InitVarint /\ [][VarintNext]_vars

InitSerial ==
    /\ SerialInit /\ VarintIdle /\ WalkIdle /\ ExecIdle /\ RecordIdle /\ PageIdle /\ OrderIdle
    /\ file = <<>>

SpecSerial == InitSerial /\ [][SerialNext]_vars

InitWalk ==
    WalkInit /\ VarintIdle /\ SerialIdle /\ ExecIdle /\ RecordIdle /\ PageIdle /\ OrderIdle

SpecWalk == InitWalk /\ [][WalkNext]_vars

InitExec ==
    ExecInit /\ VarintIdle /\ SerialIdle /\ WalkIdle /\ RecordIdle /\ PageIdle /\ OrderIdle

SpecExec == InitExec /\ [][ExecNext]_vars

InitRecord ==
    RecordInit /\ VarintIdle /\ SerialIdle /\ WalkIdle /\ ExecIdle /\ PageIdle /\ OrderIdle

SpecRecord == InitRecord /\ [][RecordNext]_vars

-----------------------------------------------------------------------------
(* index_scan on index B-trees whose root is an interior page of up to     *)
(* three cells over leaf pages.                                            *)

\* the page size of the index files, and how many entries an index holds
IndexPageSize == 96
MaxIndexEntries == 4

\* the root of the index is the page after page 1
IndexTreeRoot == TABLESCHEMA_PAGE + 1

\* how many cells the root may hold
MaxRootCells == 3

\* the keys of the entries: NULL and three texts
IndexKeys == ColumnValues \cup {StoredText(TextC)}

\* the indexes: entries in key order, the row-id of each its position
IndexTrees ==
    {[i \in 1..Len(q) |-> [key |-> q[i], rowid |-> i]] :
        q \in {k \in SeqsUpTo(IndexKeys, MaxIndexEntries) \ {<<>>} :
                  \A i, j \in 1..Len(k) : i < j => ~KeyLess(k[j], k[i])}}

\* the positions of a set in increasing order
SortedPositions(S) ==
    CHOOSE q \in [1..Cardinality(S) -> S] :
        \A i, j \in 1..Cardinality(S) : i < j => q[i] < q[j]

\* the entries that go to the root: any one to three of them
RootChoices(n) ==
    {SortedPositions(S) : S \in {T \in SUBSET (1..n) :
                                   T # {} /\ Cardinality(T) <= MaxRootCells}}

\* the file of an index: page 1, the interior root whose cell j holds the
\* entry at position seps[j] and points to leaf j, then the leaves, each
\* of the entries between two root entries, the last one the rightmost
IndexFile(entries, seps) ==
    LET k == Len(seps)
        n == Len(entries)
        from(j) == IF j = 1 THEN 1 ELSE seps[j - 1] + 1
        to(j) == IF j = k + 1 THEN n ELSE seps[j] - 1
    IN  <<Zeros(IndexPageSize),
          BuildPageAt(<<>>, IndexPageSize, 2,
                      [j \in 1..k |->
                          IndexInteriorCell(IndexTreeRoot + j, entries[seps[j]])],
                      IndexTreeRoot + k + 1)>>
        \o [j \in 1..(k + 1) |->
               BuildPageAt(<<>>, IndexPageSize, 10,
                           [i \in 1..(to(j) - from(j) + 1) |->
                               IndexLeafCell(entries[from(j) + i - 1])],
                           0)]

\* how many entries a one-page index holds
MaxLeafEntries == 3

\* the second column of a two-column index: a text or an integer
SecondColumns == {StoredText(TextA), StoredInt(7)}

\* the indexed columns of an entry: one column, or two
KeyColumns(width) ==
    IF width = 1 THEN {<<k>> : k \in IndexKeys}
    ELSE {<<k, c>> : k \in IndexKeys, c \in SecondColumns}

\* the one-page indexes over one and over two columns: entries in the
\* order of their first column, their row-ids consecutive from the first
LeafIndexes ==
    UNION {{[i \in 1..Len(q) |-> [cols |-> q[i], rowid |-> first + i - 1]] :
              q \in {k \in SeqsUpTo(KeyColumns(width), MaxLeafEntries) \ {<<>>} :
                        \A i, j \in 1..Len(k) :
                            i < j => ~KeyLess(k[j][1], k[i][1])},
              first \in FirstRowids} :
           width \in {1, 2}}

\* the cell of an index leaf for an entry over any number of columns: the
\* payload is the record of the indexed columns followed by the row-id
IndexLeafCellOf(entry) ==
    LET payload == EncodeRecord(entry.cols \o <<StoredInt(entry.rowid)>>)
    IN  Varint(Len(payload)) \o payload

\* the file of a one-page index: page 1, then the leaf that is the root
LeafIndexFile(entries) ==
    <<Zeros(IndexPageSize),
      BuildPageAt(<<>>, IndexPageSize, 10,
                  [i \in 1..Len(entries) |-> IndexLeafCellOf(entries[i])], 0)>>

IndexInit ==
    /\ wpc = "index"
    /\ \/ \E entries \in IndexTrees :
            \E seps \in RootChoices(Len(entries)) :
               file = IndexFile(entries, seps)
       \/ \E entries \in LeafIndexes : file = LeafIndexFile(entries)
    /\ index_root = IndexTreeRoot
    /\ scan = NoWalk
    /\ mscan = NoWalk
    /\ wrow = NoRecord
    /\ lookup = NoWalk
    /\ wkey = <<>>
    /\ idx = NoWalk

\* index_scan from the root of the index for a probe key
IndexProbe ==
    /\ wpc = "index"
    /\ \E key \in ProbeKeys :
          /\ wkey' = key
          /\ idx' = index_scan(file, index_root, key, 0)
    /\ wpc' = "descended"
    /\ UNCHANGED <<file, index_root, scan, mscan, wrow, lookup, otherThanWalk>>

IndexNext == IndexProbe

InitIndex ==
    IndexInit /\ VarintIdle /\ SerialIdle /\ ExecIdle /\ RecordIdle /\ PageIdle /\ OrderIdle

SpecIndex == InitIndex /\ [][IndexNext]_vars

-----------------------------------------------------------------------------
(* The walkers on files whose pointers form a cycle: the root is an        *)
(* interior page one of whose pointers names the root itself.              *)

\* the root and the leaf of a file with a cycle
CycleRoot == TableRoot
CycleLeaf == TableRoot + 1

\* the child and the rightmost pointer of the root: one of them the root
CyclePointers ==
    {pr \in {CycleRoot, CycleLeaf} \X {CycleRoot, CycleLeaf} :
        pr[1] = CycleRoot \/ pr[2] = CycleRoot}

\* the rows of the leaf, and the entries of the index leaf
CycleRows ==
    UNION {{WalkRows(n, first, vals) : first \in FirstRowids,
                                        vals \in [1..n -> ColumnValues \ {StoredNull}]} :
              n \in 1..2}

\* a table whose root names itself
CycleTableFile(rows, key, pr) ==
    <<Zeros(PageSize),
      BuildPage(5, <<TableInteriorCell(pr[1], key)>>, pr[2]),
      BuildPage(13, [i \in 1..Len(rows) |-> TableLeafCell(rows[i])], 0)>>

\* an index whose root names itself
CycleIndexFile(rows, entry, pr) ==
    <<Zeros(PageSize),
      BuildPage(2, <<IndexInteriorCell(pr[1], entry)>>, pr[2]),
      BuildPage(10, [i \in 1..Len(rows) |->
                       IndexLeafCell([key |-> rows[i].vals[IndexedCol],
                                      rowid |-> rows[i].rowid])], 0)>>

CycleInit ==
    /\ wpc = "cycle"
    /\ \E rows \in CycleRows, pr \in CyclePointers :
          \/ \E key \in FirstRowids :
                /\ WellSized(CycleTableFile(rows, key, pr))
                /\ file = CycleTableFile(rows, key, pr)
          \/ \E k \in ColumnValues \ {StoredNull}, rowid \in {2, 3} :
                /\ WellSized(CycleIndexFile(rows, [key |-> k, rowid |-> rowid], pr))
                /\ file = CycleIndexFile(rows, [key |-> k, rowid |-> rowid], pr)
    /\ index_root = CycleRoot
    /\ scan = NoWalk
    /\ mscan = NoWalk
    /\ wrow = NoRecord
    /\ lookup = NoWalk
    /\ wkey = <<>>
    /\ idx = NoWalk

\* full_table_scan from the root of the table
CycleFullScan ==
    /\ wpc = "cycle"
    /\ file[CycleRoot][1] = 5
    /\ scan' = full_table_scan(file, CycleRoot, 0)
    /\ wpc' = "cscanned"
    /\ UNCHANGED <<file, index_root, mscan, wrow, lookup, wkey, idx, otherThanWalk>>

\* row_lookup from the root of the table
CycleRowLookup ==
    /\ wpc = "cycle"
    /\ file[CycleRoot][1] = 5
    /\ \E rowid \in 1..MaxRows :
          lookup' = row_lookup(file, CycleRoot, rowid, 0)
    /\ wpc' = "clooked"
    /\ UNCHANGED <<file, index_root, scan, mscan, wrow, wkey, idx, otherThanWalk>>

\* index_scan from the root of the index
CycleIndexScan ==
    /\ wpc = "cycle"
    /\ file[CycleRoot][1] = 2
    /\ \E key \in ProbeKeys :
          /\ wkey' = key
          /\ idx' = index_scan(file, index_root, key, 0)
    /\ wpc' = "cprobed"
    /\ UNCHANGED <<file, index_root, scan, mscan, wrow, lookup, otherThanWalk>>

CycleNext == CycleFullScan \/ CycleRowLookup \/ CycleIndexScan

InitCycle ==
    CycleInit /\ VarintIdle /\ SerialIdle /\ ExecIdle /\ RecordIdle /\ PageIdle /\ OrderIdle

SpecCycle == InitCycle /\ [][CycleNext]_vars

-----------------------------------------------------------------------------
(* One SELECT COUNT or SELECT command, step by step, with the pages it     *)
(* reads from the file: 0 stands for the 100-byte header.                  *)

\* the names a command may give its table: `t`, `i`, `v` and the unknown `x`
QueryNames == {<<116>>, <<105>>, <<118>>, <<120>>}

OrderInit ==
    /\ opc = "start"
    /\ reads = <<>>
    /\ built = NoSchema
    /\ \E elements \in ElementSeqs, p2 \in OtherPages, p3 \in OtherPages :
          dbfile = SchemaPage(elements, SchemaPageSize) \o p2 \o p3
    /\ tpc = "idle"
    /\ tpage = NoPageLoaded
    /\ tlines = <<>>

\* the pages of the file the command runs on
OrderFile == FilePages(dbfile, DbHeader_from_file(dbfile).val.page_size)

\* DbHeader::from_file
OrderHeader ==
    /\ opc = "start"
    /\ reads' = Append(reads, 0)
    /\ opc' = IF DbHeader_from_file(dbfile).ok THEN "header" ELSE "failed"
    /\ UNCHANGED <<built, pageVars, file, varintVars, serialVars, walkVars,
                   execVars, recordVars>>

\* Page::from_file(TABLESCHEMA_PAGE)
OrderSchemaPage ==
    /\ opc = "header"
    /\ reads' = Append(reads, TABLESCHEMA_PAGE)
    /\ tpage' = [number |-> TABLESCHEMA_PAGE,
                 page |-> Page_from_file(OrderFile, TABLESCHEMA_PAGE)]
    /\ opc' = IF tpage'.page.ok THEN "page1" ELSE "failed"
    /\ UNCHANGED <<built, dbfile, tpc, tlines, file, varintVars, serialVars,
                   walkVars, execVars, recordVars>>

\* SqliteSchema::from_page
OrderSchema ==
    /\ opc = "page1"
    /\ built' = SqliteSchema_from_page(OrderFile, tpage.page.val, 0, <<>>)
    /\ reads' = reads \o schema_pages_read(OrderFile, tpage.page.val, 0)
    /\ opc' = IF built'.ok THEN "schema" ELSE "failed"
    /\ UNCHANGED <<pageVars, file, varintVars, serialVars, walkVars, execVars,
                   recordVars>>

\* the SELECT COUNT branch after the schema: find the table and load
\* its root page
OrderCount ==
    /\ opc = "schema"
    /\ \E tablename \in QueryNames :
          IF find_table(built.val, tablename).some
          THEN /\ reads' = Append(reads, find_table(built.val, tablename).val.rootpage)
               /\ opc' = "done"
          ELSE /\ reads' = reads
               /\ opc' = "failed"
    /\ UNCHANGED <<built, pageVars, file, varintVars, serialVars, walkVars,
                   execVars, recordVars>>

\* the SELECT branch after the schema: find the table, parse its SQL and
\* resolve the columns (which succeeds or panics), then scan the table
OrderSelect ==
    /\ opc = "schema"
    /\ \E tablename \in QueryNames, columns_found \in BOOLEAN :
          IF /\ find_table(built.val, tablename).some
             /\ find_table(built.val, tablename).val.tabletype = TextTable
             /\ columns_found
          THEN /\ reads' = reads \o
                      main_full_table_scan(
                          OrderFile,
                          find_table(built.val, tablename).val.rootpage, 0).loads
               /\ opc' = "done"
          ELSE /\ reads' = reads
               /\ opc' = "failed"
    /\ UNCHANGED <<built, pageVars, file, varintVars, serialVars, walkVars,
                   execVars, recordVars>>

OrderNext ==
    OrderHeader \/ OrderSchemaPage \/ OrderSchema \/ OrderCount \/ OrderSelect

InitOrder ==
    /\ OrderInit /\ VarintIdle /\ SerialIdle /\ WalkIdle /\ ExecIdle /\ RecordIdle
    /\ file = <<>>

SpecOrder == InitOrder /\ [][OrderNext]_vars

InitPage ==
    /\ PageInit /\ VarintIdle /\ SerialIdle /\ WalkIdle /\ ExecIdle /\ RecordIdle
    /\ OrderIdle
    /\ file = <<>>

SpecPage == InitPage /\ [][PageNext]_vars

-----------------------------------------------------------------------------
(* Properties                                                              *)

\* C9: decoding the SQLite encoding of a 64-bit value v yields (v, n) with
\* n the length of the encoding and 1 <= n <= 9; nine-byte encodings take
\* all 8 bits of the ninth byte, so values with the top bit set round-trip.
VarintRoundTrip ==
    vpc = "decoded" =>
        /\ vout[1] = vin
        /\ vout[2] = Len(venc)
        /\ vout[2] \in 1..9

\* a value with its top bit set has been encoded in nine bytes and decoded
VarintRoundTripWitness ==
    /\ vpc = "decoded"
    /\ vin[63] = 1
    /\ Len(venc) = 9
    /\ vout[1] = vin

\* C18: decode_varint fails with a decode error when the slice ends before
\* the varint terminates (every byte supplied has its high bit set and
\* fewer than 9 bytes are supplied): it returns no value for such a slice.
VarintCutFails ==
    ~(/\ vpc = "returned"
      /\ Len(venc) < 9
      /\ \A k \in 1..Len(venc) : venc[k] >= 128)

\* the serial type table of the file format (spec section 3), codes 0..9
SpecSerialKind(n) ==
    <<"Null", "I8", "I16", "I24", "I32", "I48", "I64", "F64", "Zero", "One">>[n + 1]
SpecSerialWidth(n) == <<0, 1, 2, 3, 4, 6, 8, 8, 0, 0>>[n + 1]

\* C10: decode_serial_types maps each serial type code 0..9 to the type and
\* body width of the table of the file format, and the record reader
\* advances the body offset by exactly that width.
SerialTableMatches ==
    \A n \in 0..9 :
        (sheader = <<n>> /\ spc # "input") =>
            /\ stypes.ok
            /\ stypes.val[1].kind = SpecSerialKind(n)
            /\ size(stypes.val[1]) = SpecSerialWidth(n)
            /\ (spc # "typed" => svalues.ok /\ svalues.offset = SpecSerialWidth(n))

\* C11: for every serial type code N >= 12, decode_serial_types yields TEXT
\* iff N is odd and BLOB iff N is even, of width (N - 13) / 2 for TEXT and
\* (N - 12) / 2 for BLOB.
SerialTextBlobWidth ==
    \A n \in (12..MaxSerialCode) \cup WideCodes :
        (sheader = Varint(n) /\ spc # "input") =>
            /\ stypes.ok
            /\ Len(stypes.val) = 1
            /\ stypes.val[1].kind = "Text" <=> n % 2 = 1
            /\ stypes.val[1].kind = "Blob" <=> n % 2 = 0
            /\ n % 2 = 1 => stypes.val[1].len = (n - 13) \div 2
            /\ n % 2 = 0 => stypes.val[1].len = (n - 12) \div 2
            /\ size(stypes.val[1]) = stypes.val[1].len

\* C23: decoding an integer column of width 3 or of width 6 yields the
\* sign-extended value of all its 3 (6) big-endian body bytes: a body with
\* the top bit set gives a negative number and every byte counts.
IntegerSignExtended ==
    (spc = "read" /\ Len(stypes.val) = 1 /\ stypes.val[1].kind \in {"I24", "I48"}) =>
        /\ size(stypes.val[1]) = (IF stypes.val[1].kind = "I24" THEN 3 ELSE 6)
        /\ svalues.val[1].val = SignExtend(SubSeq(sbody, 1, size(stypes.val[1])))

\* a TEXT code and a BLOB code of two varint bytes have been decoded
SerialTextBlobWidthWitness ==
    /\ spc # "input"
    /\ stypes.ok
    /\ Len(sheader) = 4
    /\ Len(stypes.val) = 2
    /\ stypes.val[1] = TypeCode("Text", 58)
    /\ stypes.val[2] = TypeCode("Blob", 59)

-----------------------------------------------------------------------------
(* The pages a table B-tree reaches, read from the bytes of the file       *)
(* (file format, spec section 3)                                           *)

PageType(f, p) == f[p][1]
NumCells(f, p) == f[p][4] * 256 + f[p][5]

\* the child pages an interior table page names: the left child of every
\* cell and the rightmost pointer
Children(f, p) ==
    {U32(SubSeq(f[p], 9, 12))} \cup
    {U32(SubSeq(f[p], ptr + 1, ptr + 4)) :
        ptr \in {f[p][11 + 2 * i] * 256 + f[p][12 + 2 * i] : i \in 1..NumCells(f, p)}}

RECURSIVE Reach(_, _, _)
Reach(f, frontier, seen) ==
    IF frontier = {} THEN seen
    ELSE LET next == UNION {IF PageType(f, p) = 5 THEN Children(f, p) ELSE {} :
                               p \in frontier}
         IN  Reach(f, next \ seen, seen \cup next)

ReachableLeaves(f, root) == {p \in Reach(f, {root}, {root}) : PageType(f, p) = 13}

RECURSIVE SumCells(_, _)
SumCells(f, pages) ==
    IF pages = {} THEN 0
    ELSE LET p == CHOOSE q \in pages : TRUE
         IN  NumCells(f, p) + SumCells(f, pages \ {p})

Occurrences(q, x) == Cardinality({i \in 1..Len(q) : q[i] = x})

\* a walk returned one record per cell of the reachable leaves and loaded
\* each of them once
Complete(walk) ==
    /\ Len(walk.val) = SumCells(file, ReachableLeaves(file, TableRoot))
    /\ \A p \in ReachableLeaves(file, TableRoot) : Occurrences(walk.loads, p) = 1

Range(q) == {q[i] : i \in 1..Len(q)}

\* The cell the record readers read, from the bytes of its table leaf page:
\* where it lies, its payload size (a varint of one byte, as is its row-id)
\* and the bytes the page holds after the cell's two prefix bytes.
ReadCellAt == file[rnum][9 + 2 * rcell] * 256 + file[rnum][10 + 2 * rcell]
ReadPayloadSize == file[rnum][ReadCellAt + 1]
ReadOnPage == Len(file[rnum]) - (ReadCellAt + 2)

\* C12: read_record reads an overflow page if and only if payload_size
\* exceeds the bytes available on the page after the cell prefix; when the
\* payload fits on the page no other page is read (for the reader of
\* page_io.rs and for the one of main.rs).
OverflowReadIffSpill ==
    /\ rpc \in {"read", "mread"} =>
           (rrec.overflow.some <=> ReadPayloadSize > ReadOnPage)
    /\ rpc = "mread" =>
           (rmain.overflow.some <=> ReadPayloadSize > ReadOnPage)

\* the payload continuation an overflow chain holds from page p on, for a
\* residual of `need` bytes: the bytes after each page's next-page pointer
RECURSIVE OverflowChain(_, _)
OverflowChain(p, need) ==
    IF need = 0 \/ p = 0 \/ p > Len(file) THEN <<>>
    ELSE IF need <= Len(file[p]) - 4 THEN SubSeq(file[p], 5, 4 + need)
    ELSE SubSeq(file[p], 5, Len(file[p]))
            \o OverflowChain(U32(SubSeq(file[p], 1, 4)), need - (Len(file[p]) - 4))

\* the payload of a cell that spills: the on-page portion without the
\* overflow page number that ends it, then the chain's continuation
AssembledPayload ==
    SubSeq(file[rnum], ReadCellAt + 3, Len(file[rnum]) - 4)
        \o OverflowChain(U32(SubSeq(file[rnum], Len(file[rnum]) - 3, Len(file[rnum]))),
                         ReadPayloadSize - (ReadOnPage - 4))

\* the column values a payload holds
ValuesOfPayload(payload) ==
    read_values(payload, AsUsize(decode_varint(payload)[1]),
                decode_serial_types(
                    Slice(payload, decode_varint(payload)[2],
                          AsUsize(decode_varint(payload)[1]))).val,
                <<>>).val

\* C22: for a payload that spills, the assembled payload is the on-page
\* portion followed by the continuation bytes of each overflow page in
\* chain order, each page giving the bytes after its 4-byte next-page
\* pointer, across as many pages as hold payload_size bytes: the record
\* read has the column values of that payload.
SpilledPayloadAssembled ==
    (rpc \in {"read", "mread"} /\ ReadPayloadSize > ReadOnPage) =>
        /\ rrec.ok
        /\ rrec.val.payload_size = Len(AssembledPayload)
        /\ rrec.val.values = ValuesOfPayload(AssembledPayload)

\* Page number p of the file dbfile, from its bytes: where the page starts,
\* where its header starts (after the database header on page 1), how long
\* the header is (12 bytes on an interior page, else 8), its cell count
RawPageSize == dbfile[17] * 256 + dbfile[18]
RawPageStart(p) == (p - 1) * RawPageSize
RawHeaderStart(p) == RawPageStart(p) + (IF p = 1 THEN 100 ELSE 0)
RawHeaderLen(p) == IF dbfile[RawHeaderStart(p) + 1] \in {2, 5} THEN 12 ELSE 8
RawNumCells(p) ==
    dbfile[RawHeaderStart(p) + 4] * 256 + dbfile[RawHeaderStart(p) + 5]
RawPointer(p, i) ==
    dbfile[RawHeaderStart(p) + RawHeaderLen(p) + 2 * i - 1] * 256
        + dbfile[RawHeaderStart(p) + RawHeaderLen(p) + 2 * i]

\* C13: Page::from_file reads page p at byte offset (p - 1) * page_size,
\* parses the page header at offset 100 iff p = 1 (else at offset 0), and
\* builds a pointer array of exactly num_cells entries from the bytes that
\* follow the 8-byte (leaf) or 12-byte (interior) header.
PageReadAtOffset ==
    tpc = "loaded" =>
        LET p == tpage.number
            page == tpage.page.val
        IN  /\ tpage.page.ok
            /\ page.data = SubSeq(dbfile, RawPageStart(p) + 1,
                                  RawPageStart(p) + RawPageSize)
            /\ page.header.page_type = dbfile[RawHeaderStart(p) + 1]
            /\ page.header.num_cells = RawNumCells(p)
            /\ Len(page.pointer_array) = RawNumCells(p)
            /\ \A i \in 1..RawNumCells(p) : page.pointer_array[i] = RawPointer(p, i)

\* page 1 was loaded with the pointers of its two cells or more, and a
\* later page is an interior page of two cells
PageReadAtOffsetWitness ==
    /\ tpc = "loaded"
    /\ tpage.number = 1
    /\ tpage.page.ok
    /\ Len(tpage.page.val.pointer_array) >= 2
    /\ tpage.page.val.pointer_array[1] > tpage.page.val.pointer_array[2]
    /\ tpage.page.val.pointer_array[2] > 100

\* the name of the schema element in cell i (from 1) of page 1, from the
\* bytes of the file: the second column of the cell's record, after the
\* two prefix bytes, the record header and the first column's text
RawElementName(i) ==
    LET cell   == RawPointer(1, i)
        hdr    == dbfile[cell + 3]
        first  == (dbfile[cell + 4] - 13) \div 2
        second == (dbfile[cell + 5] - 13) \div 2
    IN  SubSeq(dbfile, cell + 2 + hdr + first + 1, cell + 2 + hdr + first + second)

\* C15: the schema reader produces one schema element per cell of page 1, in
\* cell order, and `.tables` prints the name of every one of them in that
\* order, whatever its element type.
TablesPrintsEveryElement ==
    tpc \in {"printed", "failed"} =>
        /\ tpc = "printed"
        /\ tlines = [i \in 1..RawNumCells(1) |-> RawElementName(i)]

\* The root page of the index, from its bytes: its cell count, and for its
\* cell i (from 1) the left child, whether the key is a text, and the key
RootCells == file[index_root][4] * 256 + file[index_root][5]
RootRightmost == U32(SubSeq(file[index_root], 9, 12))
RootCellAt(i) ==
    file[index_root][12 + 2 * i - 1] * 256 + file[index_root][12 + 2 * i]
RootLeft(i) == U32(SubSeq(file[index_root], RootCellAt(i) + 1, RootCellAt(i) + 4))
RootKeyIsText(i) ==
    /\ file[index_root][RootCellAt(i) + 7] >= 13
    /\ file[index_root][RootCellAt(i) + 7] % 2 = 1
RootKey(i) ==
    SubSeq(file[index_root], RootCellAt(i) + 9,
           RootCellAt(i) + 8 + (file[index_root][RootCellAt(i) + 7] - 13) \div 2)

\* cell i of the root holds a key greater than the probe key
RootGreater(i) == RootKeyIsText(i) /\ StrGreater(RootKey(i), wkey)

\* cell i is met: no earlier cell holds a greater key
RootMet(i) == \A j \in 1..(i - 1) : ~RootGreater(j)

\* the scan descends into the left child of cell i
RootDescends(i) ==
    /\ RootMet(i)
    /\ RootGreater(i) \/ (RootKeyIsText(i) /\ RootKey(i) = wkey)

\* C20: on an interior index page index_scan visits the cells in stored
\* order; it descends into the left child of every cell whose key equals
\* the probe key and goes on, into the left child of the first cell whose
\* key is greater and then stops, into no child of a cell with a smaller
\* key, and into rightmost_pointer iff no cell with a greater key was met.
IndexScanDescents ==
    (wpc = "descended" /\ file[index_root][1] = 2) =>
        /\ idx.ok
        /\ Tail(idx.loads) =
              [k \in 1..Len(SelectSeq([i \in 1..RootCells |-> i], RootDescends)) |->
                  RootLeft(SelectSeq([i \in 1..RootCells |-> i], RootDescends)[k])]
              \o (IF \E i \in 1..RootCells : RootGreater(i)
                  THEN <<>> ELSE <<RootRightmost>>)

\* Whenever every record of the root decodes, the pages loaded after the
\* root are the children C20 names, in cell order.
IndexScanDescentsWhenDecoded ==
    (wpc = "descended" /\ file[index_root][1] = 2 /\ idx.ok) =>
        Tail(idx.loads) =
              [k \in 1..Len(SelectSeq([i \in 1..RootCells |-> i], RootDescends)) |->
                  RootLeft(SelectSeq([i \in 1..RootCells |-> i], RootDescends)[k])]
              \o (IF \E i \in 1..RootCells : RootGreater(i)
                  THEN <<>> ELSE <<RootRightmost>>)

\* a root of three cells: a smaller key not descended into, an equal key
\* descended into, a greater key descended into, and no rightmost pointer
IndexScanDescentsWhenDecodedWitness ==
    /\ wpc = "descended"
    /\ file[index_root][1] = 2
    /\ RootCells = 3
    /\ RootKeyIsText(1) /\ StrGreater(wkey, RootKey(1))
    /\ RootKeyIsText(2) /\ RootKey(2) = wkey
    /\ RootGreater(3)
    /\ idx.loads = <<index_root, RootLeft(2), RootLeft(3)>>

\* Whenever `.tables` prints, it prints the name of every cell of page 1,
\* in cell order.
TablesPrintedAreEveryElement ==
    tpc = "printed" =>
        tlines = [i \in 1..RawNumCells(1) |-> RawElementName(i)]

\* the row-id of the entry in cell i of the interior root: the last column
\* of its record, an integer of one byte or the constant 1
RootRowid(i) ==
    IF file[index_root][RootCellAt(i) + 8] = 9 THEN 1
    ELSE file[index_root][RootCellAt(i) + 5 + file[index_root][RootCellAt(i) + 5]]

\* C28: every index entry whose key equals the probe key contributes its
\* row-id to the result of index_scan, also the entries stored in the
\* cells of an interior index page.
InteriorEntriesYielded ==
    (wpc = "descended" /\ file[index_root][1] = 2 /\ idx.ok) =>
        \A i \in 1..RootCells :
            (RootKeyIsText(i) /\ RootKey(i) = wkey) => RootRowid(i) \in Range(idx.val)

\* The root page of the index when it is a leaf, from its bytes: for its
\* cell i (from 1) the payload, the length of the record header, the
\* serial type of the first and of the last column, the first column's
\* text, and the integer stored in the last column (of at most one byte)
LeafCellAt(i) ==
    file[index_root][8 + 2 * i - 1] * 256 + file[index_root][8 + 2 * i]
LeafPayload(i) ==
    SubSeq(file[index_root], LeafCellAt(i) + 2,
           LeafCellAt(i) + 1 + file[index_root][LeafCellAt(i) + 1])
LeafHeaderLen(i) == LeafPayload(i)[1]
LeafFirstType(i) == LeafPayload(i)[2]
LeafLastType(i) == LeafPayload(i)[LeafHeaderLen(i)]
LeafFirstIsText(i) == LeafFirstType(i) >= 13 /\ LeafFirstType(i) % 2 = 1
LeafFirstText(i) ==
    SubSeq(LeafPayload(i), LeafHeaderLen(i) + 1,
           LeafHeaderLen(i) + (LeafFirstType(i) - 13) \div 2)
LeafLastInt(i) ==
    IF LeafLastType(i) = 8 THEN 0
    ELSE IF LeafLastType(i) = 9 THEN 1
    ELSE LeafPayload(i)[Len(LeafPayload(i))]

\* cell i of the leaf root holds the probe key in its first column
LeafMatches(i) == LeafFirstIsText(i) /\ LeafFirstText(i) = wkey

\* C21: on an index leaf page index_scan appends, for each cell whose first
\* column equals the probe key, the value of the record's last column as
\* the row-id, for indexes over any number of columns.
IndexLeafYieldsLastColumn ==
    (wpc = "descended" /\ file[index_root][1] = 10) =>
        /\ idx.ok
        /\ idx.val =
              [k \in 1..Len(SelectSeq([i \in 1..RootCells |-> i], LeafMatches)) |->
                  LeafLastInt(SelectSeq([i \in 1..RootCells |-> i], LeafMatches)[k])]

\* C24: full_table_scan, row_lookup and index_scan terminate on every
\* file, also on one whose pointers form a cycle: one traversal loads no
\* more pages than a visited-page cap allows, here the pages of the file,
\* and does not recurse until the call stack ends.
WalkersBounded ==
    /\ wpc = "cscanned" => Len(scan.loads) <= Len(file)
    /\ wpc = "clooked" => Len(lookup.loads) <= Len(file)
    /\ wpc = "cprobed" => Len(idx.loads) <= Len(file)

\* C25: within one SELECT or SELECT COUNT command the file header and
\* page 1 are read and the whole schema is built before any page other
\* than page 1 is read from the file.
SchemaBeforeData ==
    /\ Len(reads) >= 1 => reads[1] = 0
    /\ Len(reads) >= 2 => reads[2] = 1
    /\ (\E i \in 1..Len(reads) : reads[i] \notin {0, 1}) =>
          /\ opc = "done"
          /\ built.ok
          /\ Len(built.val) = RawNumCells(1)

\* a schema of two elements or more was built and then the root page of a
\* table and a page under it were read
SchemaBeforeDataWitness ==
    /\ opc = "done"
    /\ Len(built.val) >= 2
    /\ Len(reads) >= 4
    /\ reads[3] = 2
    /\ reads[4] = 3

\* C29: index_scan treats a cell whose key column is NULL on a leaf index
\* page as it does on an interior one: the cell is skipped as a non-match
\* and the scan goes on without failing (stated for the one-column leaves
\* whose row-ids are one-byte integers and that hold a NULL key).
NullKeySkippedOnLeaf ==
    (/\ wpc = "descended"
     /\ file[index_root][1] = 10
     /\ \A i \in 1..RootCells : LeafHeaderLen(i) = 3 /\ LeafLastType(i) = 1
     /\ \E i \in 1..RootCells : LeafFirstType(i) = 0) =>
        /\ idx.ok
        /\ idx.val =
              [k \in 1..Len(SelectSeq([i \in 1..RootCells |-> i], LeafMatches)) |->
                  LeafLastInt(SelectSeq([i \in 1..RootCells |-> i], LeafMatches)[k])]

\* C14: decoding a cell of a well-formed page whose payload does not
\* overflow never fails on an out-of-range slice, wherever on the page the
\* cell lies (for the reader of page_io.rs and for the one of main.rs).
CellDecodesOnPage ==
    /\ rpc \in {"read", "mread"} => rrec.ok
    /\ rpc = "mread" => rmain.ok

\* C30: on every table leaf cell of a well-formed page the read_record of
\* main.rs and the read_record of page_io.rs (for a table leaf cell) end
\* alike: both fail, or both return the same row-id, payload size and
\* column values.
RecordReadersAgree ==
    rpc = "mread" =>
        /\ rmain.ok <=> rrec.ok
        /\ rrec.ok =>
              /\ rowid_of(rrec.val) = Some(rmain.val.rowid)
              /\ rmain.val.payload_size = rrec.val.payload_size
              /\ rmain.val.values = rrec.val.values

\* on the cells both readers decode, they return the same record
RecordReadersAgreeWhenBothDecode ==
    (rpc = "mread" /\ rmain.ok /\ rrec.ok) =>
        /\ rowid_of(rrec.val) = Some(rmain.val.rowid)
        /\ rmain.val.payload_size = rrec.val.payload_size
        /\ rmain.val.values = rrec.val.values

\* both readers decoded a cell of two columns or more
RecordReadersAgreeWhenBothDecodeWitness ==
    /\ rpc = "mread"
    /\ rmain.ok
    /\ rrec.ok
    /\ Len(rrec.val.values) >= 2

\* cell i (from 1) of an interior table page, read from the bytes of the
\* file: where it lies, its left child and its key (a row-id below 128)
CellAt(f, p, i) == f[p][11 + 2 * i] * 256 + f[p][12 + 2 * i]
CellChild(f, p, i) == U32(SubSeq(f[p], CellAt(f, p, i) + 1, CellAt(f, p, i) + 4))
CellKey(f, p, i) == f[p][CellAt(f, p, i) + 5]

\* the child of interior table page p that holds `rowid`: the left child of
\* the first cell whose key is >= rowid, the rightmost pointer when no cell
\* qualifies
ChildFor(f, p, rowid) ==
    IF \E i \in 1..NumCells(f, p) : CellKey(f, p, i) >= rowid
    THEN CellChild(f, p, CHOOSE i \in 1..NumCells(f, p) :
                             /\ CellKey(f, p, i) >= rowid
                             /\ \A j \in 1..(i - 1) : CellKey(f, p, j) < rowid)
    ELSE U32(SubSeq(f[p], 9, 12))

\* C19: on every interior table page row_lookup descends into exactly one
\* child, the left child of the first cell whose key is >= the target row-id
\* or the rightmost pointer if no cell qualifies; it loads no page of
\* another subtree of that page.
RowLookupOneChild ==
    wpc = "looked" =>
        \A p \in Range(lookup.loads) :
            PageType(file, p) = 5 =>
                Children(file, p) \cap Range(lookup.loads)
                    = {ChildFor(file, p, rowid_of(wrow).val)}

\* C6: the set of row-ids index_scan(index_root, v) returns is the set of
\* row-ids of the records full_table_scan returns whose indexed column
\* equals v.
IndexScanMatchesFullScan ==
    (wpc = "probed" /\ scan.ok /\ idx.ok) =>
        Range(idx.val) =
            {rowid_of(scan.val[i]).val :
                i \in {j \in 1..Len(scan.val) :
                          scan.val[j].values[IndexedCol] = SqlValue("Text", wkey)}}

\* the value a record holds in the column `name` of its table
ColumnValue(record, name) ==
    record.values[CHOOSE j \in 1..Len(schema[1].sql.columns) :
                     schema[1].sql.columns[j] = name]

PrintedRows == {out[i].row : i \in 1..Len(out)}

\* C1: SELECT COUNT(*) prints the sum of num_cells over the leaf pages
\* reachable from the table's root (num_cells of the root when it is a
\* leaf).
CountIsLeafSum ==
    (pc = "done" /\ query.kind = "count") =>
        out = <<[row |-> 0,
                 line |-> to_string(SumCells(file,
                              ReachableLeaves(file, TableRoot)))]>>

\* C2: a record is printed if and only if, for every WHERE clause, its
\* value in the clause's column is TEXT and equal to the clause's literal.
PostFilterIff ==
    (pc \in {"rows", "done"} /\ query.kind = "select") =>
        \A k \in 1..cursor :
            k \in PrintedRows <=>
                \A c \in 1..Len(query.where_clause) :
                    ColumnValue(records[k], query.where_clause[c].column)
                        = SqlValue("Text", query.where_clause[c].value)

\* C3: a printed row lists the projected values in the order the query
\* gives the columns, `id` at its position with the record's row-id as its
\* value (stated for the records whose other projected columns are TEXT).
ProjectionInQueryOrder ==
    query.kind = "select" =>
        \A i \in 1..Len(out) :
            LET record == records[out[i].row]
                cols   == query.columns
            IN  (\A j \in 1..Len(cols) :
                    cols[j] # "id" => ColumnValue(record, cols[j]).tag = "Text")
                => out[i].line =
                      join([j \in 1..Len(cols) |->
                               IF cols[j] = "id" THEN to_string(record.rowid)
                               ELSE ColumnValue(record, cols[j]).val],
                           <<124>>)

\* the rows a projection SELECT with the WHERE clauses `where` prints from
\* the scanned records
RowsKept(where) ==
    LET stmt == SelectStmt(query.columns, query.table, where)
    IN  {k \in 1..Len(records) :
            process_record(records[k], stmt, resolve(schema, stmt).val).kind
                = "print"}

\* C4: the rows printed for WHERE a=x AND b=y are the intersection of the
\* rows printed for WHERE a=x with the rows printed for WHERE b=y.
WhereConjunctionIsIntersection ==
    (pc = "done" /\ query.kind = "select" /\ Len(query.where_clause) = 2) =>
        PrintedRows = RowsKept(<<query.where_clause[1]>>)
                          \cap RowsKept(<<query.where_clause[2]>>)

\* the query names a table the schema lacks, or a column its table lacks
Unresolvable ==
    \/ \A i \in 1..Len(schema) : schema[i].name # query.table
    \/ \E i \in 1..Len(schema) :
          /\ schema[i].name = query.table
          /\ \E c \in Range(query.columns)
                     \cup {query.where_clause[j].column :
                              j \in 1..Len(query.where_clause)} :
                c \notin Range(schema[i].sql.columns)

\* C16: a projection SELECT that names a table absent from the schema, or a
\* projected or WHERE column absent from the table's columns, fails before
\* any row is printed (and before the table is scanned).
UnresolvedQueryFails ==
    (query.kind = "select" /\ pc # "start" /\ Unresolvable) =>
        /\ pc = "failed"
        /\ out = <<>>
        /\ calls = <<>>

\* a query on the table `t` with a WHERE column it lacks has failed
UnresolvedQueryFailsWitness ==
    /\ pc = "failed"
    /\ query.kind = "select"
    /\ query.table = "t"
    /\ query.columns = <<"name">>
    /\ Len(query.where_clause) = 1
    /\ query.where_clause[1].column = "zip"
    /\ Len(schema) = 2

\* the record equals the literal of every WHERE clause in the clause's column
PassesWhere(record) ==
    \A c \in 1..Len(query.where_clause) :
        ColumnValue(record, query.where_clause[c].column)
            = SqlValue("Text", query.where_clause[c].value)

\* the record holds a value that is neither TEXT nor NULL in a projected column
ProjectsOther(record) ==
    \E j \in 1..Len(query.columns) :
        ColumnValue(record, query.columns[j]).tag \notin {"Text", "Null"}

\* the TEXT values the record holds in the projected columns, in query order
ProjectedTexts(record) ==
    LET texts == SelectSeq([j \in 1..Len(query.columns) |->
                               ColumnValue(record, query.columns[j])],
                           LAMBDA v : v.tag = "Text")
    IN  [i \in 1..Len(texts) |-> texts[i].val]

\* the line of the record at position k of the scan, when one was printed
LineOf(k) == out[CHOOSE i \in 1..Len(out) : out[i].row = k].line

\* C17: when a record that passes the WHERE filter holds a value that is
\* neither TEXT nor NULL in a projected column, the query fails at that
\* record; otherwise its line joins the TEXT values in order, a NULL column
\* being omitted (the line is stated for the queries that do not name `id`).
ProjectionTextOrNull ==
    (query.kind = "select" /\ pc \in {"rows", "done", "failed"}) =>
        \A k \in 1..cursor :
            PassesWhere(records[k]) =>
                IF ProjectsOther(records[k])
                THEN pc = "failed" /\ k = cursor /\ k \notin PrintedRows
                ELSE /\ k \in PrintedRows
                     /\ "id" \notin Range(query.columns) =>
                            LineOf(k) = join(ProjectedTexts(records[k]), <<124>>)

\* a query without WHERE has printed a row and then failed at a record
\* whose projected column holds an integer
ProjectionTextOrNullWitness ==
    /\ pc = "failed"
    /\ query.kind = "select"
    /\ query.columns = <<"name">>
    /\ query.where_clause = <<>>
    /\ cursor >= 2
    /\ ColumnValue(records[cursor], "name").tag = "I8"
    /\ Len(out) = cursor - 1

\* C26: the rows a projection SELECT prints are, in the order of the scan,
\* the records of the full scan that pass the WHERE filter: the printed
\* sequence is that subsequence, no row reordered or printed twice.
PrintedIsFilteredScan ==
    (pc = "done" /\ query.kind = "select") =>
        [i \in 1..Len(out) |-> out[i].row] =
            SelectSeq([k \in 1..Len(records) |-> k],
                      LAMBDA k : PassesWhere(records[k]))

\* The rows printed are in the order of the scan, none printed twice.
PrintedInScanOrder ==
    query.kind = "select" =>
        \A i, j \in 1..Len(out) : i < j => out[i].row < out[j].row

\* C27: the rows a projection SELECT prints do not depend on the order of
\* its WHERE clauses: the query with its two clauses exchanged prints the
\* same rows.
WhereOrderIrrelevant ==
    (pc = "done" /\ query.kind = "select" /\ Len(query.where_clause) = 2) =>
        PrintedRows = RowsKept(<<query.where_clause[2], query.where_clause[1]>>)

\* the schema holds an index on a column the query equates in WHERE
UsableIndex ==
    \E t \in Range(schema), c \in Range(query.where_clause) :
        /\ t.sql.kind = "CreateIndex"
        /\ t.tbl_name = query.table
        /\ t.sql.columns[1] = c.column

\* C5: with a usable index the executor runs index_scan and row_lookup to
\* materialize the candidate rows, and runs the full scan only when no
\* usable index exists.
IndexedPlanUsed ==
    (pc \in {"rows", "done"} /\ UsableIndex) =>
        /\ "index_scan" \in Range(calls)
        /\ "full_table_scan" \notin Range(calls)

=============================================================================
